---- MODULE Spec2Model ----
(***************************************************************************)
(* Worker pool of aw-workers: WorkerPool (worker-pool.ts), WorkerProxy     *)
(* (worker-proxy.ts), the executed-side message handler                    *)
(* (worker-loader-script.ts) and the ceiling computation (worker.utils.ts).*)
(*                                                                         *)
(* The pool is the one WorkerPool.create returns: its methods are called   *)
(* once setup has completed.  A proxy's id is the thread id its Worker got *)
(* at construction.                                                        *)
(*                                                                         *)
(* The orchestrator is a single event loop: every action below is one run  *)
(* of orchestrator code between two suspension points (an API call up to   *)
(* its first await, or the delivery of one envelope with the continuation  *)
(* it resumes).  Each worker thread handles its inbound envelopes one at a *)
(* time (async.queue with concurrency 1).                                  *)
(*                                                                         *)
(* Spec is the pool driven through its own methods.  ProxySpec is a pool   *)
(* of one proxy whose caller also uses the proxy getWorker returned        *)
(* (onMessage, onError, onExit, run), whose unit (worker.ts) calls         *)
(* resolve, reject and progress once it was run, and whose thread may      *)
(* crash and exit.  TaskSpec is that pool with a unit at work: the payloads *)
(* of progress and the argument of reject vary.  ThreadSpec follows the    *)
(* thread's queue event by event (a handler call starts, it completes) and *)
(* loads every kind of pointer.  QuerySpec is the pool created with any    *)
(* options, threadsCount left out included, and its query helpers.         *)
(* LiveSpec is the pool with no thread terminated and no handshake started *)
(* on a proxy that has one pending, under weak fairness of delivery and of *)
(* the threads' handlers.  ListenerSpec calls the handshake listeners with *)
(* responses of any correlation id.  ReuseSpec is a pool of one proxy that *)
(* is run, released and acquired again while its units go on emitting.     *)
(***************************************************************************)
EXTENDS Integers, Sequences, FiniteSets, TLC

\* ------------------------------------------------------------------ bounds
MaxThreads == 2          \* largest threadsCount option a pool is created with
MaxInviolable == 1       \* largest inviolableThreadsCount option
MaxCpus == 2             \* largest os.cpus().length
MaxQueue == 3            \* envelopes in flight per direction and proxy
MaxOps == 4              \* calls made on the pool and on the proxies it returned
MaxHandlers == 1         \* handlers registered per proxy and event

Proxies == 1..MaxThreads           \* thread ids, in creation order
Ids == 1..(MaxThreads + 1)         \* ids a caller may pass to releaseWorker
NoData == "undefined"
Null == "null"
EmptyObject == "{}"
Data == {NoData, "data"}           \* second argument of releaseWorker
Pointers == {NoData, "worker"}    \* argument of getWorker
ExistingFiles == {"worker"}        \* pointers for which existsSync(buildPath(p))
Bindings == {"label", "worker"}    \* labels bound in the loader's registry

\* ------------------------------------------------- JavaScript number values
NaN == [nan |-> TRUE, v |-> 0]
Num(n) == [nan |-> FALSE, v |-> n]
isNaN(x) == x.nan
JsGt(a, b) == ~a.nan /\ ~b.nan /\ a.v > b.v
JsLt(a, b) == ~a.nan /\ ~b.nan /\ a.v < b.v
JsEq(a, b) == ~a.nan /\ ~b.nan /\ a.v = b.v
JsSub(a, b) == IF a.nan \/ b.nan THEN NaN ELSE Num(a.v - b.v)

\* ---------------------------------------------------------------- envelopes
System == "system"
Info == "info"
Error == "error"

\* the private constructor; NoData stands for an absent data or error
WorkerMessage(workerId, type, name, data, error) ==
  [workerId |-> workerId, type |-> type, name |-> name, data |-> data,
   error |-> error]

SetupMsg(id) == WorkerMessage(id, System, "setup", NoData, NoData)
SetupComplete(id) == WorkerMessage(id, System, "setup_complete", NoData, NoData)
SetupFailure(id, e) == WorkerMessage(id, System, "setup_failure", e, e)
LoadMsg(id, p) == WorkerMessage(id, System, "load", p, NoData)
LoadComplete(id) == WorkerMessage(id, System, "load_complete", NoData, NoData)
LoadFailure(id, e) == WorkerMessage(id, System, "load_failure", e, e)
DisposeMsg(id) == WorkerMessage(id, System, "dispose", NoData, NoData)
DisposeComplete(id) == WorkerMessage(id, System, "dispose_complete", NoData, NoData)
DisposeFailure(id, e) == WorkerMessage(id, System, "dispose_failure", e, e)
RunTask(id, value) == WorkerMessage(id, Info, "run_task", value, NoData)
TaskResolved(id, value) == WorkerMessage(id, Info, "task_resolved", value, NoData)
\* fault: a rejection travels on the Info channel
TaskRejectedInfo(id, e) == WorkerMessage(id, Info, "task_rejected", Null, e)
TaskRejected(id, e) == WorkerMessage(id, Error, "task_rejected", Null, e)
TaskProgress(id, value) == WorkerMessage(id, Info, "task_progress", value, NoData)

\* toJson: the plain object posted; an absent error becomes an empty object,
\* a present one is copied field by field
toJson(m) ==
  [workerId |-> m.workerId, type |-> m.type, name |-> m.name, data |-> m.data,
   error |-> IF m.error = NoData THEN EmptyObject ELSE m.error]

VARIABLES
  poolPc,               \* WorkerPool.create: "new", "setup", "ready", "failed"
  workerMaxCount,       \* WorkerPool.workerMaxCount (a JavaScript number)
  availableWorkers,     \* WorkerPool.availableWorkers: sequence of proxies
  activeWorkersByPid,   \* WorkerPool.activeWorkersByPid: id -> proxy
  workerReleaseHandler, \* TRUE once onWorkerRelease registered a handler
  created,              \* number of WorkerProxy objects constructed
  listeners,            \* per proxy: listeners installed on its Worker
  pointer,              \* per proxy: WorkerProxy._pointer
  toWorker,             \* per proxy: envelopes posted to the thread
  toParent,             \* per proxy: envelopes posted by the thread
  terminated,           \* per proxy: Worker.terminate() was called
  workerLoader,         \* per thread: the loader was set up
  worker,               \* per thread: pointer of the loaded unit, or NoData
  ops,                  \* number of calls made on the pool and its proxies
  lastOp,               \* what the last step did (observation only)
  onMessageHandlers,    \* per proxy: 'message' listeners installed by onMessage
  onErrorHandlers,      \* per proxy: 'error' listeners installed by onError
  onExitHandlers,       \* per proxy: 'exit' listeners installed by onExit
  held,                 \* per proxy: getWorker has returned it to the caller
  thread,               \* per thread: "running", "crashed" or "exited"
  isRejected,           \* per thread: Worker.isRejected of the loaded unit
  running,              \* per thread: run was called on the loaded unit
  handling,             \* per thread: envelopes whose messageHandler call has
                        \* started and not returned (the queue's running tasks)
  unsettled,            \* per thread: RunTask envelopes the loaded unit was run
                        \* with, less the settle envelopes it has posted
                        \* (observation only)
  replaced,             \* per thread: the isRejected flags of the units that a
                        \* later Load replaced while their run was in progress
  everRegistered,       \* per proxy: how many handlers were registered so far
                        \* by onMessage with no handshake pending
                        \* (standing), by onError and by onExit
                        \* (observation only)
  lastCalls             \* calls the last step made to handlers and to
                        \* Worker.terminate (observation only)

vars == <<poolPc, workerMaxCount, availableWorkers, activeWorkersByPid,
          workerReleaseHandler, created, listeners, pointer, toWorker,
          toParent, terminated, workerLoader, worker, ops, lastOp,
          onMessageHandlers, onErrorHandlers, onExitHandlers, held, thread,
          isRejected, running, handling, unsettled, replaced,
          everRegistered,
          lastCalls>>

\* the listeners callers install on a proxy
handlerVars == <<onMessageHandlers, onErrorHandlers, onExitHandlers>>
\* the state of a thread: the unit loaded in it and the queue's running tasks
unitVars == <<isRejected, running, handling, unsettled, replaced>>

\* lastOp: the call or continuation the last step ran, its id, its argument,
\* its result and the release-handler invocations it made
Op(op, id, arg, ret, calls) ==
  [op |-> op, id |-> id, arg |-> arg, ret |-> ret, calls |-> calls]

\* ------------------------------------------------------ Map<number, proxy>
EmptyMap == [k \in {} |-> 0]
MapSet(m, k, w) == [x \in (DOMAIN m) \cup {k} |-> IF x = k THEN w ELSE m[x]]
MapDelete(m, k) == [x \in (DOMAIN m) \ {k} |-> m[x]]
MapHas(m, k) == k \in DOMAIN m
MapSize(m) == Cardinality(DOMAIN m)
MapValues(m) == {m[k] : k \in DOMAIN m}

SeqToSet(s) == {s[i] : i \in 1..Len(s)}

\* --------------------------------------------------------- worker.utils.ts
getWorkersCount(threadsCount, inviolableThreadsCount, cpus) ==
  IF JsEq(threadsCount, Num(0)) \/ isNaN(threadsCount)
    THEN JsSub(Num(cpus), inviolableThreadsCount)
    ELSE threadsCount

\* --------------------------------------------------------- worker-pool.ts
\* setup, lines 61-64
SetupWorkerMaxCount(threadsCount, inviolableThreadsCount, cpus) ==
  IF JsGt(threadsCount, inviolableThreadsCount)
    THEN getWorkersCount(threadsCount, inviolableThreadsCount, cpus)
    ELSE threadsCount

\* getWorker, line 101
HasFreeSlot(active, max) == JsLt(Num(MapSize(active)), max)

\* fault: with nothing idle, hands out a proxy that is already busy
GetWorkerShiftBusy(active, available, max) ==
  IF available # <<>> THEN Head(available)
  ELSE IF DOMAIN active # {} THEN active[CHOOSE k \in DOMAIN active : TRUE]
  ELSE 0

\* fault: a proxy whose thread was terminated is not handed out
GetWorkerShiftLive(active, available, max) ==
  IF HasFreeSlot(active, max) /\ available # <<>> /\ ~terminated[Head(available)]
    THEN Head(available) ELSE 0

\* getWorker, lines 101-105 and 110-112: the proxy taken from the list, 0 when
\* the call returns null
GetWorkerShift(active, available, max) ==
  IF HasFreeSlot(active, max) /\ available # <<>> THEN Head(available) ELSE 0

\* fault: reads the head of the list without removing it
ShiftRestPeek(available) == available

\* fault: the proxy taken is put back at the end of the list
ShiftRestRotate(available) ==
  IF available = <<>> THEN <<>> ELSE Tail(available) \o <<Head(available)>>

\* getWorker, line 104: what shift() leaves in the list
ShiftRest(available) == IF available = <<>> THEN <<>> ELSE Tail(available)

\* fault: the proxy is not recorded as active
GetWorkerActivateSkipped(active, w) == active

\* getWorker, line 106
GetWorkerActivate(active, w) == MapSet(active, w, w)

\* fault: an id that is not active is looked up among the idle proxies too
ReleaseLookupAnywhere(active, available, id) ==
  IF MapHas(active, id) THEN active[id]
  ELSE IF id \in SeqToSet(available) THEN id
  ELSE 0

\* releaseWorker, lines 125 and 127: the proxy found for id, 0 when none
ReleaseLookup(active, available, id) ==
  IF MapHas(active, id) THEN active[id] ELSE 0

\* fault: the id is left in the map
ReleaseDeleteSkipped(active, id) == active

\* releaseWorker, line 129
ReleaseDelete(active, id) == MapDelete(active, id)

\* fault: the comparison of line 130 inverted
ReleasePushInverted(available, w, max) ==
  IF JsLt(Num(Len(available)), max) THEN available ELSE Append(available, w)

\* releaseWorker, lines 130-132
ReleasePush(available, w, max) ==
  IF JsLt(Num(Len(available)), max) THEN Append(available, w) ELSE available

\* fault: the handler runs before lines 129-132, seeing the pool as it was
ReleaseNotifyEarly(registered, id, data, w, available, active) ==
  IF registered
    THEN <<[id |-> id, data |-> data,
            inIdle |-> w \in SeqToSet(availableWorkers),
            inBusy |-> MapHas(activeWorkersByPid, id)]>>
    ELSE <<>>

\* releaseWorker, lines 133-135: the handler's invocations, each with what
\* the handler can observe of the pool when it runs
ReleaseNotify(registered, id, data, w, available, active) ==
  IF registered
    THEN <<[id |-> id, data |-> data,
            inIdle |-> w \in SeqToSet(available),
            inBusy |-> MapHas(active, id)]>>
    ELSE <<>>

\* ---------------------------------------------------------- worker-proxy.ts
Listener(kind, id, data) == [kind |-> kind, id |-> id, data |-> data]

CompleteOf(kind) == kind \o "_complete"
FailureOf(kind) == kind \o "_failure"

\* fault: the listener has no branch for the Failure envelope
HandshakeOutcomeNoFailure(kind, m) ==
  IF m.type = System /\ m.name = CompleteOf(kind) THEN "resolve" ELSE "ignore"

\* fault: the listener does not look at the envelope's type
HandshakeOutcomeAnyType(kind, m) ==
  IF m.name = CompleteOf(kind) \/ m.type # System THEN "resolve"
  ELSE IF m.name = FailureOf(kind) THEN "reject"
  ELSE "ignore"

\* fault: the listener takes any handshake's Complete for its own
HandshakeOutcomeAnyComplete(kind, m) ==
  IF m.type = System /\ m.name \in {CompleteOf("setup"), CompleteOf("load"),
                                     CompleteOf("dispose")} THEN "resolve"
  ELSE IF m.type = System /\ m.name = FailureOf(kind) THEN "reject"
  ELSE "ignore"

\* fault: the listener rejects its promise on an envelope of the Error type
HandshakeOutcomeErrorRejects(kind, m) ==
  IF m.type = System /\ m.name = CompleteOf(kind) THEN "resolve"
  ELSE IF m.type = Error \/ (m.type = System /\ m.name = FailureOf(kind))
    THEN "reject"
  ELSE "ignore"

\* the 'message' listener a handshake installs: what it does with envelope m
HandshakeOutcome(kind, m) ==
  IF m.type = System /\ m.name = CompleteOf(kind) THEN "resolve"
  ELSE IF m.type = System /\ m.name = FailureOf(kind) THEN "reject"
  ELSE "ignore"

\* Worker.postMessage: a thread that was terminated or has stopped receives
\* nothing
PostMessage(queue, p, m) ==
  IF terminated[p] \/ thread[p] # "running"
    THEN queue
    ELSE [queue EXCEPT ![p] = Append(@, m)]

CanPost(p) == Len(toWorker[p]) < MaxQueue

\* WorkerMessage.create: the envelope a subscription handler is given; a
\* present error (the empty object included) is copied field by field
BlankError == "{message,stack,name}"
create(content) ==
  [workerId |-> content.workerId, type |-> content.type,
   name |-> content.name, data |-> content.data,
   error |-> IF content.error = NoData THEN NoData
             ELSE IF content.error = EmptyObject THEN BlankError
             ELSE content.error]

\* one call the orchestrator makes to a handler or to Worker.terminate
Call(call, id, arg) == [call |-> call, id |-> id, arg |-> arg]

Repeat(n, x) == [i \in 1..n |-> x]

\* fault: removeAllListeners leaves the caller's listeners installed
RemoveAllHandlersKept(p) == UNCHANGED handlerVars

\* worker.removeAllListeners(), for the listeners callers installed: those of
\* every event are removed
RemoveAllHandlers(p) ==
  /\ onMessageHandlers' = [onMessageHandlers EXCEPT ![p] = 0]
  /\ onErrorHandlers' = [onErrorHandlers EXCEPT ![p] = 0]
  /\ onExitHandlers' = [onExitHandlers EXCEPT ![p] = 0]

\* fault: the subscription listener passes System envelopes on as well
OnMessageListenerAll(p, content) ==
  Repeat(onMessageHandlers[p], Call("onMessage", p, create(content)))

\* the listeners onMessage installed, on envelope content: the handler calls
OnMessageListener(p, content) ==
  IF content.type # System
    THEN Repeat(onMessageHandlers[p], Call("onMessage", p, create(content)))
    ELSE <<>>

\* fault: the promise is rejected without the envelope's data
RejectValueDropped(m) == NoData

\* rejectSetup(data) / rejectLoad(data) / rejectDispose(data)
RejectValue(m) == m.data

\* the call a handshake listener makes to its promise's resolve or reject
SettleCall(p, kind, outcome, m) ==
  Call(outcome, p, [kind |-> kind,
                    value |-> IF outcome = "reject" THEN RejectValue(m)
                              ELSE NoData])

\* fault: the listener of a pending handshake stays installed
HandshakeAdds(p, l, m) ==
  /\ listeners' = [listeners EXCEPT ![p] = @ \cup {l}]
  /\ RemoveAllHandlers(p)
  /\ toWorker' = PostMessage(toWorker, p, toJson(m))

\* setup / load / dispose up to the returned promise: removeAllListeners,
\* install the handshake listener, post the request
Handshake(p, l, m) ==
  /\ listeners' = [listeners EXCEPT ![p] = {l}]
  /\ RemoveAllHandlers(p)
  /\ toWorker' = PostMessage(toWorker, p, toJson(m))

\* ------------------------------------------------- worker-loader.ts (load)
\* the Error thrown for a pointer that is neither a file nor a bound label: its
\* message names the pointer
NotFound(ptr) == "not_found: " \o ptr

\* fault: the registry is consulted before the file system
LoaderLoadBindingFirst(loaderSet, ptr) ==
  IF ~loaderSet THEN "type_error"
  ELSE IF ptr = NoData THEN "undefined_pointer"
  ELSE IF ptr \in Bindings THEN "binding"
  ELSE IF ptr \in ExistingFiles THEN "file"
  ELSE NotFound(ptr)

\* what load(pointer) does: "file" is an instance of the default export of the
\* file at buildPath(pointer), "binding" an instance of the class bound to the
\* label, anything else the error thrown
LoaderLoad(loaderSet, ptr) ==
  IF ~loaderSet THEN "type_error"
  ELSE IF ptr = NoData THEN "undefined_pointer"
  ELSE IF ptr \in ExistingFiles THEN "file"
  ELSE IF ptr \in Bindings THEN "binding"
  ELSE NotFound(ptr)

LoadSucceeds(res) == res \in {"file", "binding"}

\* -------------------------------------------------------------------- Init
\* the pool WorkerPool.create has constructed, before it calls setup
Init ==
  /\ poolPc = "new"
  /\ workerMaxCount = NaN          \* undefined: compares like NaN
  /\ availableWorkers = <<>>
  /\ activeWorkersByPid = EmptyMap
  /\ workerReleaseHandler = FALSE
  /\ created = 0
  /\ listeners = [p \in Proxies |-> {}]
  /\ pointer = [p \in Proxies |-> NoData]
  /\ toWorker = [p \in Proxies |-> <<>>]
  /\ toParent = [p \in Proxies |-> <<>>]
  /\ terminated = [p \in Proxies |-> FALSE]
  /\ workerLoader = [p \in Proxies |-> FALSE]
  /\ worker = [p \in Proxies |-> NoData]
  /\ ops = 0
  /\ lastOp = Op("new", 0, NoData, "void", <<>>)
  /\ onMessageHandlers = [p \in Proxies |-> 0]
  /\ onErrorHandlers = [p \in Proxies |-> 0]
  /\ onExitHandlers = [p \in Proxies |-> 0]
  /\ held = [p \in Proxies |-> FALSE]
  /\ thread = [p \in Proxies |-> "running"]
  /\ isRejected = [p \in Proxies |-> FALSE]
  /\ running = [p \in Proxies |-> FALSE]
  /\ handling = [p \in Proxies |-> <<>>]
  /\ unsettled = [p \in Proxies |-> 0]
  /\ replaced = [p \in Proxies |-> {}]
  /\ everRegistered = [p \in Proxies |-> [standing |-> 0, error |-> 0, exit |-> 0]]
  /\ lastCalls = <<>>

\* ------------------------------------------------ WorkerPool.create / setup
\* createWorker for the proxy with thread id p, up to the await of its setup;
\* ls is the listeners the call starts from
CreateWorker(p, ls) ==
  /\ created' = p
  /\ listeners' = [ls EXCEPT ![p] = {Listener("setup", p, NoData)}]
  /\ toWorker' = PostMessage(toWorker, p, toJson(SetupMsg(p)))

\* fault: the loop stops one proxy short
SetupLoopOffByOne(i, max, ls) ==
  IF JsLt(Num(i + 1), max)
    THEN /\ poolPc' = "setup"
         /\ CreateWorker(i + 1, ls)
    ELSE /\ poolPc' = "ready"
         /\ listeners' = ls
         /\ UNCHANGED <<created, toWorker>>

\* the for loop of setup at its test (line 66), i proxies having been pushed
SetupLoop(i, max, ls) ==
  IF JsLt(Num(i), max)
    THEN /\ poolPc' = "setup"
         /\ CreateWorker(i + 1, ls)
    ELSE /\ poolPc' = "ready"
         /\ listeners' = ls
         /\ UNCHANGED <<created, toWorker>>

SetupOptions(threadsCount, inviolableThreadsCount, cpus) ==
  [threadsCount |-> threadsCount,
   inviolableThreadsCount |-> inviolableThreadsCount, cpus |-> cpus]

\* setup, up to the await of the first createWorker; threadsCount and
\* inviolableThreadsCount are JavaScript numbers, options what lastOp records
SetupWith(threadsCount, inviolableThreadsCount, cpus, options) ==
  /\ poolPc = "new"
  /\ LET max == SetupWorkerMaxCount(threadsCount, inviolableThreadsCount, cpus)
     IN /\ workerMaxCount' = max
        /\ SetupLoop(0, max, listeners)
        /\ lastOp' = Op("setup", 0, options,
                        IF JsLt(Num(0), max) THEN "pending" ELSE "void", <<>>)
  /\ lastCalls' = <<>>
  /\ UNCHANGED <<availableWorkers, activeWorkersByPid, workerReleaseHandler,
                 pointer, toParent, terminated, workerLoader, worker, ops,
                 handlerVars, held, thread, unitVars, everRegistered>>

PoolSetup(threadsCount, inviolableThreadsCount, cpus) ==
  SetupWith(Num(threadsCount), Num(inviolableThreadsCount), cpus,
            SetupOptions(threadsCount, inviolableThreadsCount, cpus))

\* setup with options that leave threadsCount out: undefined, which compares
\* and subtracts like NaN
PoolSetupNoThreadsCount(inviolableThreadsCount, cpus) ==
  SetupWith(NaN, Num(inviolableThreadsCount), cpus,
            SetupOptions(NoData, inviolableThreadsCount, cpus))

OnWorkerRelease ==
  /\ poolPc = "ready"
  /\ ~workerReleaseHandler
  /\ workerReleaseHandler' = TRUE
  /\ lastOp' = Op("onWorkerRelease", 0, NoData, "void", <<>>)
  /\ lastCalls' = <<>>
  /\ UNCHANGED <<poolPc, workerMaxCount, availableWorkers,
                 activeWorkersByPid, created, listeners, pointer, toWorker,
                 toParent, terminated, workerLoader, worker, ops,
                 handlerVars, held, thread, unitVars, everRegistered>>

\* ------------------------------------------------------ WorkerPool.getWorker
\* fault: load does not record the pointer
LoadRecordSkipped(ptrs, w, ptr) == ptrs

\* load, line 82: this._pointer = pointer
LoadRecord(ptrs, w, ptr) == [ptrs EXCEPT ![w] = ptr]

GetWorker(ptr) ==
  /\ poolPc = "ready"
  /\ ops < MaxOps
  /\ ops' = ops + 1
  /\ LET w == GetWorkerShift(activeWorkersByPid, availableWorkers, workerMaxCount)
     IN IF w # 0
          THEN /\ CanPost(w)
               /\ availableWorkers' = ShiftRest(availableWorkers)
               /\ activeWorkersByPid' = GetWorkerActivate(activeWorkersByPid, w)
               /\ pointer' = LoadRecord(pointer, w, ptr)
               /\ Handshake(w, Listener("load", w, NoData), LoadMsg(w, ptr))
               /\ lastOp' = Op("getWorker", w, ptr, "pending", <<>>)
          ELSE /\ lastOp' = Op("getWorker", 0, ptr, "null", <<>>)
               /\ UNCHANGED <<availableWorkers, activeWorkersByPid, pointer,
                              listeners, toWorker, handlerVars>>
  /\ lastCalls' = <<>>
  /\ UNCHANGED <<poolPc, workerMaxCount, workerReleaseHandler, created,
                 toParent, terminated, workerLoader, worker, held, thread,
                 unitVars, everRegistered>>

\* fault: a proxy whose load was rejected is taken out of the active map
GetWorkerRejectedCleans(active, w) == MapDelete(active, w)

\* getWorker, line 107: the rejection of load leaves getWorker at the await,
\* after line 106 and with no handler: the map is left as it is
GetWorkerRejected(active, w) == active

\* -------------------------------------------------- WorkerPool.releaseWorker
\* lines 122-128: up to the await of dispose
ReleaseWorker(id, data) ==
  /\ poolPc = "ready"
  /\ ops < MaxOps
  /\ ops' = ops + 1
  /\ LET w == ReleaseLookup(activeWorkersByPid, availableWorkers, id)
     IN IF w # 0
          THEN /\ CanPost(w)
               /\ Handshake(w, Listener("dispose", id, data), DisposeMsg(w))
               /\ lastOp' = Op("releaseWorker", id, data, "pending", <<>>)
          ELSE /\ lastOp' = Op("releaseWorker", id, data, "not_found", <<>>)
               /\ UNCHANGED <<listeners, toWorker, handlerVars>>
  /\ lastCalls' = <<>>
  /\ UNCHANGED <<poolPc, workerMaxCount, availableWorkers,
                 activeWorkersByPid, workerReleaseHandler, created, pointer,
                 toParent, terminated, workerLoader, worker, held, thread,
                 unitVars, everRegistered>>

\* lines 129-135: after dispose resolved, for the proxy w found at line 125
ReleaseResume(w, id, data) ==
  LET active == ReleaseDelete(activeWorkersByPid, id)
      available == ReleasePush(availableWorkers, w, workerMaxCount)
  IN /\ activeWorkersByPid' = active
     /\ availableWorkers' = available
     /\ lastOp' = Op("releaseWorker", id, data, "void",
                     ReleaseNotify(workerReleaseHandler, id, data, w,
                                   available, active))

\* fault: a release whose dispose was rejected still deletes the proxy
ReleaseRejectedDeletes(active, id) == MapDelete(active, id)

\* line 128: the rejection of dispose leaves releaseWorker at the await,
\* before lines 129-135 and with no handler: the map is left as it is
ReleaseRejected(active, id) == active

\* -------------------------------------------------- WorkerPool.removeWorkers
\* the keys of a map, in ascending order
RECURSIVE MapKeys(_)
MapKeys(m) ==
  IF DOMAIN m = {} THEN <<>>
  ELSE LET k == CHOOSE x \in DOMAIN m : \A y \in DOMAIN m : x <= y
       IN <<k>> \o MapKeys(MapDelete(m, k))

\* fault: only the active proxies are removed
RemoveTargetsActiveOnly(active, available) ==
  [i \in 1..MapSize(active) |-> active[MapKeys(active)[i]]]

\* the proxies the two forEach loops call remove() on, in call order
RemoveTargets(active, available) ==
  [i \in 1..MapSize(active) |-> active[MapKeys(active)[i]]] \o available

RemoveWorkers ==
  /\ poolPc = "ready"
  /\ ops < MaxOps
  /\ ops' = ops + 1
  /\ LET targets == RemoveTargets(activeWorkersByPid, availableWorkers)
         all == SeqToSet(targets)
     IN /\ terminated' = [p \in Proxies |-> terminated[p] \/ p \in all]
        /\ toWorker' = [p \in Proxies |-> IF p \in all THEN <<>> ELSE toWorker[p]]
        /\ lastCalls' = [i \in 1..Len(targets) |->
                           Call("terminate", targets[i], NoData)]
  /\ lastOp' = Op("removeWorkers", 0, NoData, "void", <<>>)
  /\ UNCHANGED <<poolPc, workerMaxCount, availableWorkers,
                 activeWorkersByPid, workerReleaseHandler, created,
                 listeners, pointer, toParent, workerLoader, worker,
                 handlerVars, held, thread, unitVars, everRegistered>>

\* ----------------------------------- delivery of one envelope to the proxy
\* setup of proxy p resolved: createWorker returns, lines 68-69 and the loop
SetupResume(p) ==
  /\ availableWorkers' = Append(availableWorkers, p)
  /\ SetupLoop(created, workerMaxCount, [listeners EXCEPT ![p] = {}])
  /\ lastOp' = Op("setup", p, NoData, "void", <<>>)
  /\ UNCHANGED <<activeWorkersByPid>>

\* the handshake listener l of proxy p settles its promise on envelope m:
\* removeAllListeners, then the awaiting pool method resumes
Settle(p, l, outcome, m) ==
  IF l.kind = "setup"
    THEN IF outcome = "resolve"
           THEN SetupResume(p)
           ELSE /\ poolPc' = "failed"
                /\ listeners' = [listeners EXCEPT ![p] = {}]
                /\ lastOp' = Op("setup", p, NoData, "throw", <<>>)
                /\ UNCHANGED <<availableWorkers, activeWorkersByPid, created,
                               toWorker>>
  ELSE IF l.kind = "load"
    THEN /\ listeners' = [listeners EXCEPT ![p] = {}]
         /\ lastOp' = Op("getWorker", p, NoData,
                         IF outcome = "resolve" THEN "worker" ELSE "throw",
                         <<>>)
         /\ activeWorkersByPid' =
              (IF outcome = "resolve" THEN activeWorkersByPid
               ELSE GetWorkerRejected(activeWorkersByPid, p))
         /\ UNCHANGED <<poolPc, availableWorkers, created, toWorker>>
  ELSE /\ listeners' = [listeners EXCEPT ![p] = {}]
       /\ IF outcome = "resolve"
            THEN ReleaseResume(p, l.id, l.data)
            ELSE /\ lastOp' = Op("releaseWorker", l.id, l.data, "throw", <<>>)
                 /\ activeWorkersByPid' =
                      ReleaseRejected(activeWorkersByPid, l.id)
                 /\ UNCHANGED availableWorkers
       /\ UNCHANGED <<poolPc, created, toWorker>>

Deliver(p) ==
  /\ toParent[p] # <<>>
  /\ LET m == Head(toParent[p])
         hs == {l \in listeners[p] : HandshakeOutcome(l.kind, m) # "ignore"}
     IN /\ toParent' = [toParent EXCEPT ![p] = Tail(@)]
        /\ IF hs = {}
             THEN /\ lastOp' = Op("drop", p, m.name, "void", <<>>)
                  /\ lastCalls' = OnMessageListener(p, m)
                  /\ UNCHANGED <<poolPc, availableWorkers, activeWorkersByPid,
                                 created, listeners, toWorker, handlerVars,
                                 held>>
             ELSE \E l \in hs :
                    /\ Settle(p, l, HandshakeOutcome(l.kind, m), m)
                    /\ RemoveAllHandlers(p)
                    /\ lastCalls' = <<SettleCall(p, l.kind,
                                                HandshakeOutcome(l.kind, m), m)>>
                                      \o OnMessageListener(p, m)
                    /\ held' = [held EXCEPT ![p] =
                                  @ \/ (l.kind = "load" /\
                                        HandshakeOutcome(l.kind, m) = "resolve")]
  /\ UNCHANGED <<workerMaxCount, workerReleaseHandler, pointer, terminated,
                 workerLoader, worker, ops, thread, unitVars, everRegistered>>

\* ------------------------------- worker-loader-script.ts: messageHandler
\* fault: an envelope is posted at the head of the queue
ReplyFirst(p, m) == toParent' = [toParent EXCEPT ![p] = <<m>> \o @]

\* fault: an envelope is posted twice
ReplyTwice(p, m) == toParent' = [toParent EXCEPT ![p] = Append(Append(@, m), m)]

\* fault: the thread posts no response
ReplyDropped(p, m) == UNCHANGED toParent

\* parentPort.postMessage
Reply(p, m) == toParent' = [toParent EXCEPT ![p] = Append(@, m)]

\* fault: run clears the flag of the unit
RunFlagCleared(rejected) == FALSE

\* Worker.run, called at line 109: isRejected, initialised at worker.ts line 18,
\* is assigned nowhere but in reject
RunFlag(rejected) == rejected

\* fault: clearing the unit ends its run
ClearWorkerRunCancelled(run) == FALSE

\* clearWorker, lines 47-49: only the script's reference to the unit is
\* dropped; a run in progress goes on
ClearWorkerRun(run) == run

\* fault: clearing fails when no unit is loaded
ClearWorkerNeedsUnit(w) == IF w = NoData THEN "error" ELSE "ok"

\* clearWorker, lines 47-49: an assignment, which does not throw
ClearWorker(w) == "ok"

\* one call of messageHandler, in thread p with envelope m, from its start to
\* the settling of the promise it returns
HandleEnvelope(p, m) ==
  IF m.name = "setup"
    THEN \E res \in {"ok", "invalid_path", "setup_rejected"} :
           /\ workerLoader' = [workerLoader EXCEPT
                                 ![p] = IF res = "invalid_path" THEN @ ELSE TRUE]
           /\ Reply(p, IF res = "ok" THEN SetupComplete(m.workerId)
                       ELSE SetupFailure(m.workerId, res))
           /\ lastOp' = Op("messageHandler", p, m.name, res, <<>>)
           /\ UNCHANGED <<worker, isRejected, running, unsettled, replaced>>
  ELSE IF m.name = "load"
    THEN LET res == LoaderLoad(workerLoader[p], m.data)
         IN /\ worker' = [worker EXCEPT
                            ![p] = IF LoadSucceeds(res) THEN m.data ELSE @]
            \* a unit just constructed is neither rejected nor run
            /\ isRejected' = [isRejected EXCEPT
                                ![p] = IF LoadSucceeds(res) THEN FALSE ELSE @]
            /\ running' = [running EXCEPT
                             ![p] = IF LoadSucceeds(res) THEN FALSE ELSE @]
            /\ unsettled' = [unsettled EXCEPT
                               ![p] = IF LoadSucceeds(res) THEN 0 ELSE @]
            \* the unit that was loaded is no longer referenced by the
            \* script; its run, when in progress, goes on
            /\ replaced' = [replaced EXCEPT
                              ![p] = IF LoadSucceeds(res) /\ running[p]
                                       THEN @ \cup {isRejected[p]} ELSE @]
            /\ Reply(p, IF LoadSucceeds(res) THEN LoadComplete(m.workerId)
                        ELSE LoadFailure(m.workerId, res))
            /\ lastOp' = Op("messageHandler", p, m.name, res, <<>>)
            /\ UNCHANGED workerLoader
  ELSE IF m.name = "dispose"
    THEN LET res == ClearWorker(worker[p])
         IN /\ worker' = [worker EXCEPT ![p] = IF res = "ok" THEN NoData ELSE @]
            /\ Reply(p, IF res = "ok" THEN DisposeComplete(m.workerId)
                        ELSE DisposeFailure(m.workerId, res))
            /\ running' = [running EXCEPT
                             ![p] = IF res = "ok" THEN ClearWorkerRun(@) ELSE @]
            /\ lastOp' = Op("messageHandler", p, m.name, res, <<>>)
            /\ UNCHANGED <<workerLoader, isRejected, unsettled, replaced>>
  ELSE /\ m.name = "run_task"
       \* getWorker().run(message.data); with no unit loaded the call
       \* throws inside the queue's task and nothing is posted
       /\ running' = [running EXCEPT ![p] = @ \/ worker[p] # NoData]
       /\ unsettled' = [unsettled EXCEPT
                          ![p] = IF worker[p] # NoData THEN @ + 1 ELSE @]
       /\ lastOp' = Op("messageHandler", p, m.name,
                       IF worker[p] # NoData THEN "run" ELSE "type_error", <<>>)
       /\ isRejected' = [isRejected EXCEPT
                           ![p] = IF worker[p] # NoData THEN RunFlag(@) ELSE @]
       /\ UNCHANGED <<workerLoader, worker, toParent, replaced>>

\* the thread of proxy p takes the oldest envelope it received and handles it;
\* the queue runs one task at a time, so the handling of one envelope is one
\* step of the thread
MessageHandler(p) ==
  /\ ~terminated[p]
  /\ thread[p] = "running"
  /\ toWorker[p] # <<>>
  /\ handling[p] = <<>>
  /\ Len(toParent[p]) < MaxQueue
  /\ toWorker' = [toWorker EXCEPT ![p] = Tail(@)]
  /\ HandleEnvelope(p, Head(toWorker[p]))
  /\ lastCalls' = <<>>
  /\ UNCHANGED <<poolPc, workerMaxCount, availableWorkers,
                 activeWorkersByPid, workerReleaseHandler, created,
                 listeners, pointer, terminated, ops, handlerVars, held,
                 thread, handling, everRegistered>>

\* ------------------- worker-loader-script.ts: the queue, one step per event
\* fault: the queue starts a task while another is running
QueueStartsAlways(tasks) == TRUE

\* async.queue(messageHandler): concurrency 1, a task starts when none runs
QueueStarts(tasks) == tasks = <<>>

\* the queue of thread p calls messageHandler with the oldest pushed envelope
HandlerStart(p) ==
  /\ ~terminated[p]
  /\ thread[p] = "running"
  /\ toWorker[p] # <<>>
  /\ QueueStarts(handling[p])
  /\ toWorker' = [toWorker EXCEPT ![p] = Tail(@)]
  /\ handling' = [handling EXCEPT ![p] = Append(@, Head(toWorker[p]))]
  /\ lastOp' = Op("queue", p, Head(toWorker[p]).name, "started", <<>>)
  /\ lastCalls' = <<>>
  /\ UNCHANGED <<poolPc, workerMaxCount, availableWorkers,
                 activeWorkersByPid, workerReleaseHandler, created,
                 listeners, pointer, toParent, terminated, workerLoader,
                 worker, ops, handlerVars, held, thread, isRejected, running,
                 unsettled, replaced, everRegistered>>

\* a call of messageHandler that had started in thread p completes
HandlerFinish(p) ==
  /\ ~terminated[p]
  /\ thread[p] = "running"
  /\ Len(toParent[p]) < MaxQueue
  /\ \E i \in 1..Len(handling[p]) :
       /\ HandleEnvelope(p, handling[p][i])
       /\ handling' = [handling EXCEPT
                         ![p] = SubSeq(@, 1, i - 1) \o SubSeq(@, i + 1, Len(@))]
  /\ lastCalls' = <<>>
  /\ UNCHANGED <<poolPc, workerMaxCount, availableWorkers,
                 activeWorkersByPid, workerReleaseHandler, created,
                 listeners, pointer, toWorker, terminated, ops, handlerVars,
                 held, thread, everRegistered>>

\* -------------------------------------------------------------------- Spec
Next ==
  \/ \E t \in 0..MaxThreads, i \in 0..MaxInviolable, c \in 1..MaxCpus :
       PoolSetup(t, i, c)
  \/ OnWorkerRelease
  \/ \E ptr \in Pointers : GetWorker(ptr)
  \/ \E id \in Ids, data \in Data : ReleaseWorker(id, data)
  \/ RemoveWorkers
  \/ \E p \in Proxies : Deliver(p)
  \/ \E p \in Proxies : MessageHandler(p)

Spec == Init /\ [][Next]_vars

\* ------------------------------------- calls on a proxy the caller holds
\* the pool's own state and the channel, which these calls never touch
poolVars == <<poolPc, workerMaxCount, availableWorkers, activeWorkersByPid,
              workerReleaseHandler, created>>

UserCallWithin(p, budget) ==
  /\ held[p]
  /\ ops < budget
  /\ ops' = ops + 1

UserCall(p) == UserCallWithin(p, MaxOps)

\* WorkerProxy.onMessage, called when fewer than budget calls were made
OnMessageWithin(p, budget) ==
  /\ UserCallWithin(p, budget)
  /\ onMessageHandlers[p] < MaxHandlers
  /\ onMessageHandlers' = [onMessageHandlers EXCEPT ![p] = @ + 1]
  /\ everRegistered' = [everRegistered EXCEPT
                      ![p].standing = IF listeners[p] = {} THEN @ + 1 ELSE @]
  /\ lastOp' = Op("onMessage", p, NoData, "void", <<>>)
  /\ lastCalls' = <<>>
  /\ UNCHANGED <<poolVars, listeners, pointer, toWorker, toParent, terminated,
                 workerLoader, worker, onErrorHandlers, onExitHandlers, held,
                 thread, unitVars>>

OnMessage(p) == OnMessageWithin(p, MaxOps)

\* WorkerProxy.onError
OnError(p) ==
  /\ UserCall(p)
  /\ onErrorHandlers[p] < MaxHandlers
  /\ onErrorHandlers' = [onErrorHandlers EXCEPT ![p] = @ + 1]
  /\ everRegistered' = [everRegistered EXCEPT ![p].error = @ + 1]
  /\ lastOp' = Op("onError", p, NoData, "void", <<>>)
  /\ lastCalls' = <<>>
  /\ UNCHANGED <<poolVars, listeners, pointer, toWorker, toParent, terminated,
                 workerLoader, worker, onMessageHandlers, onExitHandlers, held,
                 thread, unitVars>>

\* WorkerProxy.onExit
OnExit(p) ==
  /\ UserCall(p)
  /\ onExitHandlers[p] < MaxHandlers
  /\ onExitHandlers' = [onExitHandlers EXCEPT ![p] = @ + 1]
  /\ everRegistered' = [everRegistered EXCEPT ![p].exit = @ + 1]
  /\ lastOp' = Op("onExit", p, NoData, "void", <<>>)
  /\ lastCalls' = <<>>
  /\ UNCHANGED <<poolVars, listeners, pointer, toWorker, toParent, terminated,
                 workerLoader, worker, onMessageHandlers, onErrorHandlers, held,
                 thread, unitVars>>

\* WorkerProxy.run
Run(p, data) ==
  /\ UserCall(p)
  /\ CanPost(p)
  /\ toWorker' = PostMessage(toWorker, p, toJson(RunTask(p, data)))
  /\ lastOp' = Op("run", p, data, "void", <<>>)
  /\ lastCalls' = <<>>
  /\ UNCHANGED <<poolVars, listeners, pointer, toParent, terminated,
                 workerLoader, worker, handlerVars, held, thread, unitVars,
                 everRegistered>>

\* ------------------------------------------- channel-fatal events of a thread
ErrorEvent == "Error"
ExitCode == "1"

\* fault: an error or exit event rejects the pending handshake
FatalEventSettles(ls, p) == [ls EXCEPT ![p] = {}]

\* the handshake listeners after an 'error' or 'exit' event: setup, load and
\* dispose listen to 'message' only, no timer or other event settles them
FatalEvent(ls, p) == ls

\* the 'error' event of proxy p's Worker: the thread died of an uncaught
\* exception
ThreadError(p) ==
  /\ p <= created
  /\ thread[p] = "running" /\ ~terminated[p]
  /\ thread' = [thread EXCEPT ![p] = "crashed"]
  /\ toWorker' = [toWorker EXCEPT ![p] = <<>>]
  /\ lastOp' = Op("error", p, ErrorEvent, "void", <<>>)
  /\ lastCalls' = Repeat(onErrorHandlers[p], Call("onError", p, ErrorEvent))
  /\ listeners' = FatalEvent(listeners, p)
  /\ UNCHANGED <<poolVars, ops, pointer, toParent, terminated,
                 workerLoader, worker, handlerVars, held, unitVars,
                 everRegistered>>

\* the 'exit' event of proxy p's Worker, after a crash or terminate()
ThreadExit(p) ==
  /\ p <= created
  /\ thread[p] # "exited"
  /\ thread[p] = "crashed" \/ terminated[p]
  /\ thread' = [thread EXCEPT ![p] = "exited"]
  /\ toWorker' = [toWorker EXCEPT ![p] = <<>>]
  /\ lastOp' = Op("exit", p, ExitCode, "void", <<>>)
  /\ lastCalls' = Repeat(onExitHandlers[p], Call("onExit", p, ExitCode))
  /\ listeners' = FatalEvent(listeners, p)
  /\ UNCHANGED <<poolVars, ops, pointer, toParent, terminated,
                 workerLoader, worker, handlerVars, held, unitVars,
                 everRegistered>>

\* ------------------------------------------------------ worker.ts: Worker
\* the unit of thread p, once run was called on it, may call its own
\* resolve / reject / progress
UnitCall(p) ==
  /\ running[p]
  /\ thread[p] = "running" /\ ~terminated[p]
  /\ Len(toParent[p]) < MaxQueue

\* fault: resolve posts whatever the flag says
ResolvePostsAlways(rejected) == TRUE

\* resolve, line 29
ResolvePosts(rejected) == rejected = FALSE

UnitResolve(p, data) ==
  /\ UnitCall(p)
  /\ IF ResolvePosts(isRejected[p])
       THEN /\ Reply(p, toJson(TaskResolved(p, data)))
            /\ unsettled' = [unsettled EXCEPT ![p] = IF @ > 0 THEN @ - 1 ELSE 0]
            /\ lastOp' = Op("resolve", p, data, "task_resolved", <<>>)
       ELSE /\ lastOp' = Op("resolve", p, data, NoData, <<>>)
            /\ UNCHANGED <<toParent, unsettled>>
  /\ lastCalls' = <<>>
  /\ UNCHANGED <<poolVars, ops, listeners, pointer, toWorker, terminated,
                 workerLoader, worker, handlerVars, held, thread, isRejected,
                 running, handling, replaced, everRegistered>>

\* fault: reject does not set the flag
RejectFlagKept(rejected) == rejected

\* reject, line 39
RejectFlag(rejected) == TRUE

UnitReject(p, e) ==
  /\ UnitCall(p)
  /\ Reply(p, toJson(TaskRejected(p, e)))
  /\ isRejected' = [isRejected EXCEPT ![p] = RejectFlag(@)]
  /\ unsettled' = [unsettled EXCEPT ![p] = IF @ > 0 THEN @ - 1 ELSE 0]
  /\ lastOp' = Op("reject", p, e, "task_rejected", <<>>)
  /\ lastCalls' = <<>>
  /\ UNCHANGED <<poolVars, ops, listeners, pointer, toWorker, terminated,
                 workerLoader, worker, handlerVars, held, thread, running,
                 handling, replaced, everRegistered>>

UnitProgress(p, data) ==
  /\ UnitCall(p)
  /\ Reply(p, toJson(TaskProgress(p, data)))
  /\ lastOp' = Op("progress", p, data, "task_progress", <<>>)
  /\ lastCalls' = <<>>
  /\ UNCHANGED <<poolVars, ops, listeners, pointer, toWorker, terminated,
                 workerLoader, worker, handlerVars, held, thread, unitVars,
                 everRegistered>>

\* ------------------------------------ the pool with its proxies in use
\* a pool created with threadsCount 1 on a one-cpu host, whose caller loads
\* the pointers "worker" and "missing" and uses the proxy it is given
ProxyNext ==
  \/ PoolSetup(1, 0, 1)
  \/ \E ptr \in {"worker", "missing"} : GetWorker(ptr)
  \/ \E id \in 1..created : ReleaseWorker(id, NoData)
  \/ RemoveWorkers
  \/ \E p \in Proxies : Deliver(p)
  \/ \E p \in Proxies : MessageHandler(p)
  \/ \E p \in Proxies : OnMessage(p)
  \/ \E p \in Proxies : OnError(p)
  \/ \E p \in Proxies : OnExit(p)
  \/ \E p \in Proxies : Run(p, "data")
  \/ \E p \in Proxies : ThreadError(p)
  \/ \E p \in Proxies : ThreadExit(p)
  \/ \E p \in Proxies : UnitResolve(p, "data")
  \/ \E p \in Proxies : UnitReject(p, ErrorEvent)
  \/ \E p \in Proxies : UnitProgress(p, "data")

ProxySpec == Init /\ [][ProxyNext]_vars

\* ------------------------------------------- a unit at work on its tasks
\* the payloads a unit reports progress with, and what reject is called with
\* (NoData: reject())
Progress == {"1", "2"}
Rejections == {ErrorEvent, NoData}

\* the one-proxy pool whose caller subscribes to the proxy and runs tasks on
\* it, the unit calling progress, resolve('done') and reject as it likes
TaskNext ==
  \/ PoolSetup(1, 0, 1)
  \/ \E ptr \in {"worker", "missing"} : GetWorker(ptr)
  \/ \E p \in Proxies : Deliver(p)
  \/ \E p \in Proxies : MessageHandler(p)
  \/ \E p \in Proxies : OnMessage(p)
  \/ \E p \in Proxies : Run(p, "data")
  \/ \E p \in Proxies : UnitResolve(p, "done")
  \/ \E p \in Proxies, e \in Rejections : UnitReject(p, e)
  \/ \E p \in Proxies, d \in Progress : UnitProgress(p, d)

TaskSpec == Init /\ [][TaskNext]_vars

\* --------------------------------- the executed side, one step per event
\* the one-proxy pool with the thread's queue in detail: the start and the
\* completion of each messageHandler call are separate steps
ThreadNext ==
  \/ PoolSetup(1, 0, 1)
  \/ \E ptr \in {NoData, "worker", "label", "missing"} : GetWorker(ptr)
  \/ \E id \in 1..created : ReleaseWorker(id, NoData)
  \/ \E p \in Proxies : Run(p, "data")
  \/ \E p \in Proxies : Deliver(p)
  \/ \E p \in Proxies : HandlerStart(p)
  \/ \E p \in Proxies : HandlerFinish(p)

ThreadSpec == Init /\ [][ThreadNext]_vars

\* ------------------------------------------- WorkerPool: the query helpers
hasAvailableWorker ==
  JsGt(JsSub(workerMaxCount, Num(MapSize(activeWorkersByPid))), Num(0))

hasActiveWorkers == MapSize(activeWorkersByPid) > 0

countAvailableWorkers == JsSub(workerMaxCount, Num(MapSize(activeWorkersByPid)))

countActiveWorkers == Num(MapSize(activeWorkersByPid))

\* a call of one of the helpers on the pool create returned
Query(helper, result) ==
  /\ poolPc = "ready"
  /\ ops < MaxOps
  /\ ops' = ops + 1
  /\ lastOp' = Op(helper, 0, NoData, result, <<>>)
  /\ lastCalls' = <<>>
  /\ UNCHANGED <<poolVars, listeners, pointer, toWorker, toParent, terminated,
                 workerLoader, worker, handlerVars, held, thread, unitVars,
                 everRegistered>>

HasAvailableWorker == Query("hasAvailableWorker", hasAvailableWorker)
HasActiveWorkers == Query("hasActiveWorkers", hasActiveWorkers)
CountAvailableWorkers == Query("countAvailableWorkers", countAvailableWorkers)
CountActiveWorkers == Query("countActiveWorkers", countActiveWorkers)

\* the pool created with any options, threadsCount left out included, its
\* proxies acquired and released and its helpers called in between
QueryNext ==
  \/ \E t \in 0..MaxThreads, i \in 0..MaxInviolable, c \in 1..MaxCpus :
       PoolSetup(t, i, c)
  \/ \E i \in 0..MaxInviolable, c \in 1..MaxCpus : PoolSetupNoThreadsCount(i, c)
  \/ GetWorker("worker")
  \/ \E id \in 1..created : ReleaseWorker(id, NoData)
  \/ RemoveWorkers
  \/ \E p \in Proxies : Deliver(p)
  \/ \E p \in Proxies : MessageHandler(p)
  \/ HasAvailableWorker
  \/ HasActiveWorkers
  \/ CountAvailableWorkers
  \/ CountActiveWorkers

QuerySpec == Init /\ [][QueryNext]_vars

\* --------------------------------------------------------------- ReuseSpec
\* a unit of thread p that a later Load replaced, whose flag is r, calls
\* resolve, reject or progress: it posts on the thread's parentPort
ReplacedCall(p, r) ==
  /\ r \in replaced[p]
  /\ thread[p] = "running" /\ ~terminated[p]
  /\ Len(toParent[p]) < MaxQueue

ReplacedResolve(p, data) ==
  /\ \E r \in replaced[p] :
       /\ ReplacedCall(p, r)
       /\ IF ResolvePosts(r)
            THEN /\ Reply(p, toJson(TaskResolved(p, data)))
                 /\ lastOp' = Op("replaced.resolve", p, data, "task_resolved",
                                 <<>>)
            ELSE /\ lastOp' = Op("replaced.resolve", p, data, NoData, <<>>)
                 /\ UNCHANGED toParent
  /\ lastCalls' = <<>>
  /\ UNCHANGED <<poolVars, ops, listeners, pointer, toWorker, terminated,
                 workerLoader, worker, handlerVars, held, thread, unitVars,
                 everRegistered>>

ReplacedReject(p, e) ==
  /\ \E r \in replaced[p] :
       /\ ReplacedCall(p, r)
       /\ replaced' = [replaced EXCEPT ![p] = (@ \ {r}) \cup {RejectFlag(r)}]
  /\ Reply(p, toJson(TaskRejected(p, e)))
  /\ lastOp' = Op("replaced.reject", p, e, "task_rejected", <<>>)
  /\ lastCalls' = <<>>
  /\ UNCHANGED <<poolVars, ops, listeners, pointer, toWorker, terminated,
                 workerLoader, worker, handlerVars, held, thread, isRejected,
                 running, handling, unsettled, everRegistered>>

ReplacedProgress(p, data) ==
  /\ \E r \in replaced[p] : ReplacedCall(p, r)
  /\ Reply(p, toJson(TaskProgress(p, data)))
  /\ lastOp' = Op("replaced.progress", p, data, "task_progress", <<>>)
  /\ lastCalls' = <<>>
  /\ UNCHANGED <<poolVars, ops, listeners, pointer, toWorker, terminated,
                 workerLoader, worker, handlerVars, held, thread, unitVars,
                 everRegistered>>

\* a pool of one proxy that is acquired, run, released and acquired again,
\* the caller subscribing to it once more, while the units loaded in its
\* thread emit
ReuseNext ==
  \/ PoolSetup(1, 0, 1)
  \/ GetWorker("worker")
  \/ \E id \in 1..created : ReleaseWorker(id, NoData)
  \/ \E p \in Proxies : Run(p, "data")
  \/ \E p \in Proxies : OnMessageWithin(p, MaxOps + 1)
  \/ \E p \in Proxies : Deliver(p)
  \/ \E p \in Proxies : MessageHandler(p)
  \/ \E p \in Proxies : UnitResolve(p, "done")
  \/ \E p \in Proxies : UnitReject(p, ErrorEvent)
  \/ \E p \in Proxies : UnitProgress(p, "1")
  \/ \E p \in Proxies : ReplacedResolve(p, "old")
  \/ \E p \in Proxies : ReplacedReject(p, ErrorEvent)
  \/ \E p \in Proxies : ReplacedProgress(p, "0")

ReuseSpec == Init /\ [][ReuseNext]_vars

\* ---------------------------------------------------------------- LiveSpec
\* releaseWorker called for a proxy that has no handshake pending
ReleaseWorkerSettled(id, data) ==
  /\ \A p \in Proxies :
       ReleaseLookup(activeWorkersByPid, availableWorkers, id) = p =>
         listeners[p] = {}
  /\ ReleaseWorker(id, data)

\* the pool used through create, getWorker and releaseWorker, no thread being
\* terminated and no handshake being started on a proxy that has one pending
LiveNext ==
  \/ \E t \in 0..MaxThreads, i \in 0..MaxInviolable, c \in 1..MaxCpus :
       PoolSetup(t, i, c)
  \/ \E ptr \in Pointers : GetWorker(ptr)
  \/ \E id \in Ids : ReleaseWorkerSettled(id, NoData)
  \/ \E p \in Proxies : Deliver(p)
  \/ \E p \in Proxies : MessageHandler(p)

\* the event loop of the main thread dispatches every 'message' event of a
\* Worker that has one queued (Deliver), and the event loop of each thread
\* runs the queue's next task when the previous one has completed
\* (MessageHandler): a step that stays possible is eventually taken
LiveSpec ==
  /\ Init /\ [][LiveNext]_vars
  /\ \A p \in Proxies : WF_vars(Deliver(p)) /\ WF_vars(MessageHandler(p))

\* ------------------------------------------------------------ ListenerSpec
\* the handshake responses, with every correlation id an envelope may carry
Responses ==
  UNION {{SetupComplete(id), SetupFailure(id, "setup_rejected"),
          LoadComplete(id), LoadFailure(id, "undefined_pointer"),
          DisposeComplete(id), DisposeFailure(id, "error")} : id \in Ids}

\* the Worker of proxy p queues a 'message' event with content m while a
\* handshake is pending and no other event is queued: the input of the
\* listeners that setup, load and dispose install, which are called with
\* whatever envelope the thread posted
MessageEvent(p, m) ==
  /\ p <= created
  /\ ~terminated[p]
  /\ thread[p] = "running"
  /\ listeners[p] # {}
  /\ toParent[p] = <<>>
  /\ toParent' = [toParent EXCEPT ![p] = Append(@, m)]
  /\ lastOp' = Op("message", p, m.name, "queued", <<>>)
  /\ lastCalls' = <<>>
  /\ UNCHANGED <<poolVars, listeners, pointer, toWorker, terminated,
                 workerLoader, worker, ops, handlerVars, held, thread,
                 unitVars, everRegistered>>

\* a pool of one proxy whose listeners are called with any response, and
\* whose thread may be terminated
ListenerNext ==
  \/ PoolSetup(1, 0, 1)
  \/ OnWorkerRelease
  \/ RemoveWorkers
  \/ GetWorker("worker")
  \/ \E id \in 1..created : ReleaseWorker(id, NoData)
  \/ \E p \in Proxies : Deliver(p)
  \/ \E p \in Proxies : MessageHandler(p)
  \/ \E p \in Proxies, m \in Responses : MessageEvent(p, m)

ListenerSpec == Init /\ [][ListenerNext]_vars

\* ================================================================ claims
JsLe(a, b) == ~a.nan /\ ~b.nan /\ a.v <= b.v
IdleSize == Len(availableWorkers)
BusySize == MapSize(activeWorkersByPid)
InIdle(p) == Cardinality({i \in 1..Len(availableWorkers) : availableWorkers[i] = p})
InBusy(p) == Cardinality({k \in DOMAIN activeWorkersByPid : activeWorkersByPid[k] = p})

\* the step is a call of getWorker / releaseWorker (up to its first await)
IsGetWorkerCall == ops' = ops + 1 /\ lastOp'.op = "getWorker"
IsReleaseCall == ops' = ops + 1 /\ lastOp'.op = "releaseWorker"
\* the step resumes releaseWorker after its dispose resolved
IsReleaseResume == lastOp'.op = "releaseWorker" /\ lastOp'.ret = "void"

\* C1: once setup has computed the ceiling, in every state
\* availableWorkers.length + activeWorkersByPid.size <= workerMaxCount.
C1_SizeWithinCeiling ==
  poolPc # "new" => JsLe(Num(IdleSize + BusySize), workerMaxCount)

C1_Witness ==
  /\ lastOp.op = "releaseWorker" /\ lastOp.ret = "void"
  /\ IdleSize = 1 /\ BusySize = 1 /\ workerMaxCount = Num(2)
  /\ \E p \in Proxies : terminated[p]

\* C2: after initialize every proxy the pool created is in exactly one of the
\* two collections (once in idle, or once in busy under its own id), and the
\* collections hold nothing else.
C2_ExactlyOneCollection ==
  poolPc = "ready" =>
    /\ \A p \in 1..created : InIdle(p) + InBusy(p) = 1
    /\ \A k \in DOMAIN activeWorkersByPid : activeWorkersByPid[k] = k
    /\ SeqToSet(availableWorkers) \cup MapValues(activeWorkersByPid) \subseteq 1..created

C2_Witness ==
  /\ lastOp.op = "releaseWorker" /\ lastOp.ret = "void" /\ lastOp.id = 1
  /\ availableWorkers = <<1>> /\ DOMAIN activeWorkersByPid = {2}

\* C3: the step that completes initialize leaves exactly workerMaxCount
\* proxies created, all of them in idle, and none busy.
C3_InitializeFillsIdle ==
  [][(poolPc # "ready" /\ poolPc' = "ready") =>
       /\ ~isNaN(workerMaxCount')
       /\ created' = workerMaxCount'.v
       /\ SeqToSet(availableWorkers') = 1..created'
       /\ Len(availableWorkers') = workerMaxCount'.v
       /\ MapSize(activeWorkersByPid') = 0
       /\ Len(availableWorkers') + MapSize(activeWorkersByPid') = workerMaxCount'.v]_vars

C3_Witness ==
  /\ poolPc = "ready" /\ lastOp.op = "setup" /\ lastOp.id = 2
  /\ workerMaxCount = Num(2) /\ availableWorkers = <<1, 2>> /\ BusySize = 0

\* C4: a getWorker call made when busy.size = ceiling, or when idle is empty,
\* returns null, starts no load handshake and leaves idle and busy unchanged.
C4_NoWorkerAvailable ==
  [][(IsGetWorkerCall /\ (JsEq(Num(BusySize), workerMaxCount) \/ availableWorkers = <<>>)) =>
       /\ lastOp'.ret = "null"
       /\ UNCHANGED <<availableWorkers, activeWorkersByPid, listeners, toWorker, pointer>>]_vars

C4_Witness ==
  /\ lastOp.op = "getWorker" /\ lastOp.ret = "null"
  /\ BusySize = 2 /\ workerMaxCount = Num(2)

\* C5: a getWorker call made with a free slot takes the proxy at the head of
\* idle and raises busyCount by one; a getWorker that returns a proxy returns
\* one that is busy; with busy.size = ceiling the call returns null; and the
\* completion of releaseWorker(id) lowers busyCount by one and puts the proxy
\* of that id at the back of idle, from where later getWorker calls take it.
C5_AcquireReleaseRoundTrip ==
  [][/\ (IsGetWorkerCall /\ HasFreeSlot(activeWorkersByPid, workerMaxCount)
           /\ availableWorkers # <<>>) =>
          /\ lastOp'.ret = "pending" /\ lastOp'.id = Head(availableWorkers)
          /\ availableWorkers' = Tail(availableWorkers)
          /\ activeWorkersByPid' = MapSet(activeWorkersByPid, lastOp'.id, lastOp'.id)
          /\ MapSize(activeWorkersByPid') = BusySize + 1
     /\ (IsGetWorkerCall /\ JsEq(Num(BusySize), workerMaxCount)) => lastOp'.ret = "null"
     /\ (lastOp'.op = "getWorker" /\ lastOp'.ret = "worker") =>
          MapHas(activeWorkersByPid', lastOp'.id)
     /\ IsReleaseResume =>
          /\ MapHas(activeWorkersByPid, lastOp'.id)
          /\ ~MapHas(activeWorkersByPid', lastOp'.id)
          /\ MapSize(activeWorkersByPid') = BusySize - 1
          /\ availableWorkers' = Append(availableWorkers, activeWorkersByPid[lastOp'.id])]_vars

\* ceiling 2: both proxies were taken, 1 was released and the next getWorker
\* took 1 again
C5_Witness ==
  /\ workerMaxCount = Num(2)
  /\ lastOp.op = "getWorker" /\ lastOp.ret = "pending" /\ lastOp.id = 1
  /\ DOMAIN activeWorkersByPid = {1, 2}

\* C6: a releaseWorker call for an id that is not in busy changes neither
\* collection, starts no dispose handshake, invokes no release handler and
\* completes without an error.
C6_UnknownIdRelease ==
  [][(IsReleaseCall /\ ~MapHas(activeWorkersByPid, lastOp'.id)) =>
       /\ lastOp'.ret = "not_found" /\ lastOp'.calls = <<>>
       /\ UNCHANGED <<availableWorkers, activeWorkersByPid, listeners, toWorker>>]_vars

C6_Witness ==
  /\ lastOp.op = "releaseWorker" /\ lastOp.ret = "not_found" /\ lastOp.id = 1
  /\ workerReleaseHandler /\ availableWorkers = <<1>> /\ DOMAIN activeWorkersByPid = {2}

C8_DoubleRelease ==
  poolPc = "ready" =>
    /\ JsLe(Num(IdleSize), workerMaxCount)
    /\ \A p \in Proxies : InIdle(p) <= 1

\* the first of two overlapping releases of proxy 1 has completed while the
\* answer to the second Dispose is still on its way
C8_Witness ==
  /\ lastOp.op = "releaseWorker" /\ lastOp.ret = "void" /\ lastOp.id = 1
  /\ availableWorkers = <<1>>
  /\ toParent[1] # <<>> /\ Head(toParent[1]).name = "dispose_complete"

ClaimedCeiling(o) ==
  IF o.threadsCount = 0
    THEN Num(o.cpus - o.inviolableThreadsCount)
    ELSE Num(o.threadsCount)

\* C9: the ceiling setup computes from its options is
\* cpus - inviolableThreadsCount when threadsCount is zero (or not a number),
\* and threadsCount otherwise.
C9_CeilingAsClaimed ==
  (lastOp.op = "setup" /\ lastOp.id = 0) => workerMaxCount = ClaimedCeiling(lastOp.arg)

\* C10: setup creates a proxy only when every proxy created before has
\* resolved its setup and been pushed; it completes only then too; a
\* SetupFailure delivered to the pending setup fails initialize, and after
\* that no proxy is created and the pool never becomes ready.
C10_SequentialSetup ==
  [][/\ created' # created =>
          /\ created' = created + 1
          /\ SeqToSet(availableWorkers') = 1..created
          /\ \A p \in 1..created : listeners'[p] = {}
          /\ poolPc' = "setup"
     /\ (poolPc # "ready" /\ poolPc' = "ready") =>
          SeqToSet(availableWorkers') = 1..created
     /\ \A p \in Proxies :
          (poolPc = "setup" /\ toParent[p] # <<>> /\ toParent'[p] = Tail(toParent[p])
             /\ Head(toParent[p]).name = "setup_failure") =>
            /\ poolPc' = "failed" /\ created' = created
            /\ UNCHANGED <<availableWorkers, toWorker>>
     /\ poolPc = "failed" => (poolPc' = "failed" /\ created' = created)]_vars

\* the second proxy's setup failed after the first one's had succeeded
C10_Witness ==
  /\ poolPc = "failed" /\ created = 2 /\ availableWorkers = <<1>>
  /\ lastOp.op = "setup" /\ lastOp.ret = "throw" /\ lastOp.id = 2

\* ---------------------------------------------------------- proxy claims
\* the step delivers the envelope at the head of proxy p's inbound queue
IsDeliver(p) == toParent[p] # <<>> /\ toParent'[p] = Tail(toParent[p])

\* the resolve / reject calls among a step's calls
SettleCalls(calls) == SelectSeq(calls, LAMBDA c : c.call \in {"resolve", "reject"})

OwnComplete(kind) ==
  CASE kind = "setup" -> "setup_complete"
    [] kind = "load" -> "load_complete"
    [] kind = "dispose" -> "dispose_complete"

OwnFailure(kind) ==
  CASE kind = "setup" -> "setup_failure"
    [] kind = "load" -> "load_failure"
    [] kind = "dispose" -> "dispose_failure"

\* C11: a proxy has at most one handshake listener installed; a step settles
\* a promise only by delivering an envelope to the proxy whose handshake
\* listener is installed, at most one promise per step; it resolves the
\* promise of kind k exactly when the delivered envelope is the System
\* envelope named k's Complete and rejects it exactly when it is k's Failure;
\* any other envelope leaves the listener installed and settles nothing; and
\* after a settle the proxy has no handshake listener left.
C11_SettleOnOwnEnvelope ==
  [][\A p \in Proxies :
       /\ Cardinality(listeners[p]) <= 1
       /\ IF IsDeliver(p)
            THEN LET m == Head(toParent[p])
                     settles == SettleCalls(lastCalls')
                 IN /\ Len(settles) <= 1
                    /\ \A i \in 1..Len(settles) :
                         settles[i].id = p /\ settles[i].arg.kind \in {"setup", "load", "dispose"}
                    /\ \A k \in {"setup", "load", "dispose"} :
                         /\ (\E i \in 1..Len(settles) :
                               settles[i].call = "resolve" /\ settles[i].arg.kind = k)
                            <=> (/\ \E l \in listeners[p] : l.kind = k
                                 /\ m.type = System /\ m.name = OwnComplete(k))
                         /\ (\E i \in 1..Len(settles) :
                               settles[i].call = "reject" /\ settles[i].arg.kind = k)
                            <=> (/\ \E l \in listeners[p] : l.kind = k
                                 /\ m.type = System /\ m.name = OwnFailure(k))
                    /\ settles # <<>> => listeners'[p] = {}
                    /\ settles = <<>> => listeners'[p] = listeners[p]
            ELSE \A i \in 1..Len(lastCalls') :
                   lastCalls'[i].call \in {"resolve", "reject"} => lastCalls'[i].id # p]_vars

\* dispose resolved on DisposeComplete after the unit had posted a
\* TaskRejected, another task envelope waiting behind it
C11_Witness ==
  /\ Len(lastCalls) = 1 /\ lastCalls[1].call = "resolve"
  /\ lastCalls[1].id = 1 /\ lastCalls[1].arg.kind = "dispose"
  /\ listeners[1] = {} /\ isRejected[1]
  /\ toParent[1] # <<>> /\ Head(toParent[1]).type # System

\* C12: the getWorker call that starts load(pointer) on a proxy records
\* pointer as that proxy's pointer in the same step, before any response to
\* the Load envelope can have arrived, and no other step changes a proxy's
\* pointer: not the resolving or rejecting of the load, nor anything that
\* happens while it stays pending.
C12_PointerRecorded ==
  [][/\ (IsGetWorkerCall /\ lastOp'.ret = "pending") =>
          /\ pointer'[lastOp'.id] = lastOp'.arg
          /\ UNCHANGED toParent
          /\ toWorker'[lastOp'.id] # <<>> =>
                toWorker'[lastOp'.id][Len(toWorker'[lastOp'.id])]
                  = toJson(LoadMsg(lastOp'.id, lastOp'.arg))
     /\ \A p \in Proxies :
          pointer'[p] # pointer[p] =>
            IsGetWorkerCall /\ lastOp'.ret = "pending" /\ lastOp'.id = p]_vars

\* the load of "missing" was rejected; the proxy's pointer is "missing"
C12_Witness ==
  /\ lastOp.op = "getWorker" /\ lastOp.ret = "throw" /\ lastOp.id = 1
  /\ pointer[1] = "missing"

\* C13: a thread that handles a Load request whose pointer is neither a
\* loadable file nor a bound label posts LoadFailure carrying the error, and
\* never LoadComplete; the delivery of a Setup/Load/Dispose Failure envelope
\* to the proxy whose listener of that kind is installed rejects the promise
\* with the error the envelope carries, resolves nothing and makes the
\* awaiting pool method throw; and a load that resolves is never one of a
\* pointer that cannot be loaded.
C13_FailureRejects ==
  [][\A p \in Proxies :
       /\ (/\ toWorker[p] # <<>> /\ toWorker'[p] = Tail(toWorker[p])
           /\ lastOp'.op = "messageHandler"
           /\ Head(toWorker[p]).name = "load"
           /\ Head(toWorker[p]).data \notin ExistingFiles \cup Bindings) =>
            LET r == toParent'[p][Len(toParent'[p])]
            IN /\ toParent'[p] = Append(toParent[p], r)
               /\ r.type = System /\ r.name = "load_failure"
               /\ r.workerId = p /\ r.error # NoData /\ r.data = r.error
       /\ (/\ IsDeliver(p)
           /\ \E l \in listeners[p] :
                /\ Head(toParent[p]).type = System
                /\ Head(toParent[p]).name = OwnFailure(l.kind)) =>
            /\ Len(lastCalls') = 1
            /\ lastCalls'[1].call = "reject" /\ lastCalls'[1].id = p
            /\ lastCalls'[1].arg.kind \in {l.kind : l \in listeners[p]}
            /\ lastCalls'[1].arg.value = Head(toParent[p]).error
            /\ lastOp'.ret = "throw"
       /\ (lastOp'.op = "getWorker" /\ lastOp'.ret = "worker" /\ lastOp'.id = p) =>
            pointer[p] \in ExistingFiles \cup Bindings]_vars

\* getWorker("missing") threw: its load was rejected with the loader's error
C13_Witness ==
  /\ lastOp.op = "getWorker" /\ lastOp.ret = "throw" /\ pointer[1] = "missing"
  /\ Len(lastCalls) = 1 /\ lastCalls[1].call = "reject"
  /\ lastCalls[1].arg.kind = "load" /\ lastCalls[1].arg.value = NotFound("missing")
  /\ InBusy(1) = 1

\* the calls to onMessage handlers among a step's calls
OnMessageCalls(calls) == SelectSeq(calls, LAMBDA c : c.call = "onMessage")

\* C14: the delivery of an envelope to a proxy calls each onMessage handler
\* installed on it exactly once, with the proxy's envelope, when the
\* envelope's type is not System, and calls none when it is System; no
\* other step calls an onMessage handler.
C14_SubscriptionGetsTaskTraffic ==
  [][\A p \in Proxies :
       LET calls == SelectSeq(OnMessageCalls(lastCalls'), LAMBDA c : c.id = p)
       IN IF IsDeliver(p)
            THEN LET m == Head(toParent[p])
                 IN /\ m.type # System =>
                         /\ Len(calls) = onMessageHandlers[p]
                         /\ \A i \in 1..Len(calls) :
                              /\ calls[i].arg.workerId = m.workerId
                              /\ calls[i].arg.type = m.type
                              /\ calls[i].arg.name = m.name
                              /\ calls[i].arg.data = m.data
                    /\ m.type = System => calls = <<>>
            ELSE calls = <<>>]_vars

\* a TaskRejected envelope (type Error) was handed to the one handler installed
C14_Witness ==
  /\ onMessageHandlers[1] = 1
  /\ Len(lastCalls) = 1 /\ lastCalls[1].call = "onMessage"
  /\ lastCalls[1].id = 1 /\ lastCalls[1].arg.name = "task_rejected"
  /\ lastCalls[1].arg.type = Error

\* the step starts a handshake on proxy p / settles one
IsHandshakeStart(p) == listeners'[p] # listeners[p] /\ listeners'[p] # {}
IsSettle(p) ==
  \E i \in 1..Len(lastCalls') :
    lastCalls'[i].call \in {"resolve", "reject"} /\ lastCalls'[i].id = p

\* C15 as claimed: whenever no handshake is pending on a proxy, the handlers
\* registered through onMessage while none was pending are installed on it
\* (removed for the duration of a handshake and restored once it has settled).
C15_StandingListenerRestored ==
  \A p \in Proxies :
    listeners[p] = {} => onMessageHandlers[p] >= everRegistered[p].standing

\* C15 as amended: the start of a handshake removes the proxy's onMessage
\* handlers, its settling leaves none installed either (nothing is
\* restored), and a handler gets installed only by a call of onMessage.
C15_StandingListenerRemoved ==
  [][\A p \in Proxies :
       /\ IsHandshakeStart(p) => onMessageHandlers'[p] = 0
       /\ IsSettle(p) => onMessageHandlers'[p] = 0
       /\ onMessageHandlers'[p] > onMessageHandlers[p] =>
            /\ lastOp'.op = "onMessage" /\ lastOp'.id = p
            /\ onMessageHandlers'[p] = onMessageHandlers[p] + 1]_vars

\* a task envelope arrived after the release's dispose had settled: the
\* handler registered before the release was not called
C15_Witness ==
  /\ lastOp.op = "drop" /\ lastOp.id = 1
  /\ lastOp.arg \in {"task_progress", "task_resolved", "task_rejected"}
  /\ lastCalls = <<>>
  /\ listeners[1] = {} /\ InIdle(1) = 1
  /\ everRegistered[1].standing = 1 /\ onMessageHandlers[1] = 0

\* the calls a step makes to the handlers of one kind registered on proxy p
HandlerCalls(calls, kind, p) ==
  SelectSeq(calls, LAMBDA c : c.call = kind /\ c.id = p)

\* C16: every 'error' event of a proxy's thread calls, with (proxy id,
\* error), each handler registered on the proxy through onError before it,
\* and every 'exit' event calls, with (proxy id, code), each handler
\* registered through onExit before it, whatever handshakes the proxy has
\* started or settled in between.
C16_FatalEventsReachHandlers ==
  [][\A p \in Proxies :
       /\ (lastOp'.op = "error" /\ lastOp'.id = p) =>
            /\ Len(HandlerCalls(lastCalls', "onError", p)) = everRegistered[p].error
            /\ \A i \in 1..Len(lastCalls') : lastCalls'[i].arg = lastOp'.arg
       /\ (lastOp'.op = "exit" /\ lastOp'.id = p) =>
            /\ Len(HandlerCalls(lastCalls', "onExit", p)) = everRegistered[p].exit
            /\ \A i \in 1..Len(lastCalls') : lastCalls'[i].arg = lastOp'.arg]_vars

\* C17: idle and busy change only in a step of setup that pushes a proxy it
\* has set up, in a getWorker call and in the completion of a releaseWorker;
\* the delivery of a task envelope, a thread's error or exit event, run, the
\* unit's resolve / reject / progress, the registration of handlers and
\* removeWorkers leave both as they are; and a proxy leaves busy only in the
\* completion of a releaseWorker call made for its id.
C17_MembershipFrame ==
  [][/\ (availableWorkers' # availableWorkers
           \/ activeWorkersByPid' # activeWorkersByPid) =>
          \/ lastOp'.op = "setup" /\ poolPc = "setup"
          \/ IsGetWorkerCall /\ lastOp'.ret = "pending"
          \/ IsReleaseResume
     /\ \A p \in Proxies :
          /\ (IsDeliver(p) /\ Head(toParent[p]).type # System) =>
               UNCHANGED <<availableWorkers, activeWorkersByPid>>
          /\ (InBusy(p) = 1 /\ InBusy(p)' = 0) =>
               IsReleaseResume /\ lastOp'.id = p
     /\ lastOp'.op \in {"error", "exit", "run", "resolve", "reject", "progress",
                        "onMessage", "onError", "onExit", "removeWorkers",
                        "messageHandler", "drop"} =>
          UNCHANGED <<availableWorkers, activeWorkersByPid>>]_vars

\* the thread of a busy proxy crashed in the middle of a task and exited:
\* the proxy is still busy
C17_Witness ==
  /\ lastOp.op = "exit" /\ lastOp.id = 1 /\ thread[1] = "exited"
  /\ ~terminated[1] /\ running[1]
  /\ InBusy(1) = 1 /\ InIdle(1) = 0

\* C18: a removeWorkers call calls terminate exactly once on every proxy that
\* is in busy or in idle and on no other, posts no envelope to any thread,
\* changes no listener and neither collection, and returns in the same step,
\* whatever handshakes are pending.
C18_TerminateAll ==
  [][lastOp'.op = "removeWorkers" =>
       /\ \A p \in Proxies :
            /\ Len(HandlerCalls(lastCalls', "terminate", p)) = InBusy(p) + InIdle(p)
            /\ (InBusy(p) + InIdle(p) > 0) => (InBusy(p) + InIdle(p) = 1 /\ terminated'[p])
            /\ toWorker'[p] \in {toWorker[p], <<>>}
       /\ \A i \in 1..Len(lastCalls') : lastCalls'[i].call = "terminate"
       /\ lastOp'.ret = "void"
       /\ UNCHANGED <<listeners, availableWorkers, activeWorkersByPid, toParent>>]_vars

\* both proxies were terminated, the busy one with its load still pending
C18_Witness ==
  /\ lastOp.op = "removeWorkers" /\ Len(lastCalls) = 2
  /\ InBusy(1) = 1 /\ InIdle(2) = 1
  /\ listeners[1] = {Listener("load", 1, NoData)}
  /\ terminated[1] /\ terminated[2]

\* ----------------------------------------------------------- unit claims
\* the step is a call of op on the unit of thread p and posts exactly env
PostsOne(p, name, type, data) ==
  LET env == toParent'[p][Len(toParent'[p])]
  IN /\ toParent'[p] = Append(toParent[p], env)
     /\ env.workerId = p /\ env.name = name /\ env.type = type
     /\ env.data = data
     /\ \A q \in Proxies \ {p} : toParent'[q] = toParent[q]

\* C19: a call of resolve(data) on a unit posts one TaskResolved envelope
\* carrying data when the unit's rejected flag is not set, also when resolve
\* was called before, and posts nothing when it is set; resolve leaves
\* the flag alone, which is set only by reject and is clear only in a unit
\* a Load has just constructed.
C19_ResolveUnlessRejected ==
  [][\A p \in Proxies :
       /\ (lastOp'.op = "resolve" /\ lastOp'.id = p) =>
            /\ isRejected'[p] = isRejected[p]
            /\ IF isRejected[p]
                 THEN UNCHANGED toParent /\ lastOp'.ret = NoData
                 ELSE /\ PostsOne(p, "task_resolved", Info, lastOp'.arg)
                      /\ lastOp'.ret = "task_resolved"
       /\ (~isRejected[p] /\ isRejected'[p]) =>
            lastOp'.op = "reject" /\ lastOp'.id = p
       /\ (isRejected[p] /\ ~isRejected'[p]) =>
            /\ lastOp'.op = "messageHandler" /\ lastOp'.id = p
            /\ Head(toWorker[p]).name = "load" /\ ~running'[p]]_vars

\* a second resolve posted a second TaskResolved behind the first
C19_Witness ==
  /\ lastOp.op = "resolve" /\ lastOp.id = 1 /\ ~isRejected[1]
  /\ Len(toParent[1]) = 2
  /\ toParent[1][1].name = "task_resolved" /\ toParent[1][2].name = "task_resolved"

\* C20: every call of reject posts one TaskRejected envelope (type Error, no
\* data) and leaves the rejected flag set, whether or not it was set and
\* whatever was posted before; every call of progress(data) posts one
\* TaskProgress envelope carrying data and leaves the flag as it was.
C20_RejectAndProgressAlwaysEmit ==
  [][\A p \in Proxies :
       /\ (lastOp'.op = "reject" /\ lastOp'.id = p) =>
            /\ PostsOne(p, "task_rejected", Error, Null)
            /\ isRejected'[p]
            /\ lastOp'.ret = "task_rejected"
       /\ (lastOp'.op = "progress" /\ lastOp'.id = p) =>
            /\ PostsOne(p, "task_progress", Info, lastOp'.arg)
            /\ isRejected'[p] = isRejected[p]
            /\ lastOp'.ret = "task_progress"]_vars

\* a second reject posted a second TaskRejected behind the first
C20_Witness ==
  /\ lastOp.op = "reject" /\ lastOp.id = 1 /\ isRejected[1]
  /\ Len(toParent[1]) = 2
  /\ toParent[1][1].name = "task_rejected" /\ toParent[1][2].name = "task_rejected"

\* ------------------------------------------------------- task protocol
\* the step is a call of resolve, reject or progress on the unit of thread p
\* that posts an envelope
IsEmission(p) ==
  /\ lastOp'.op \in {"resolve", "reject", "progress"} /\ lastOp'.id = p
  /\ toParent'[p] # toParent[p]

\* C21: a unit posts a task envelope only for a run that has no settle
\* envelope yet: each RunTask it was run with is answered by TaskProgress
\* envelopes followed by one TaskResolved or TaskRejected, after which the
\* unit posts no TaskProgress and no further settle envelope until it is
\* run again.
C21_ProgressThenOneSettle ==
  [][\A p \in Proxies : IsEmission(p) => unsettled[p] > 0]_vars

\* the task envelope a call op(arg) on the unit of thread p posts
EmittedBy(p, op, arg) ==
  CASE op = "progress" -> toJson(TaskProgress(p, arg))
    [] op = "resolve" -> toJson(TaskResolved(p, arg))
    [] op = "reject" -> toJson(TaskRejected(p, arg))

\* C22: the channel from a unit to its proxy is first in, first out: each
\* posting call of the unit appends its one envelope (progress(d) a
\* TaskProgress carrying d, resolve(d) a TaskResolved carrying d) behind those
\* posted before, no step removes or reorders an envelope other than the
\* delivery of the oldest one, and that delivery hands the oldest envelope to
\* each subscribed handler; so progress(1), progress(2), resolve('done') put
\* three envelopes in the channel in that order and a handler sees them in
\* that order.
C22_EmissionOrder ==
  [][\A p \in Proxies :
       /\ IsEmission(p) =>
            toParent'[p] = Append(toParent[p],
                                  EmittedBy(p, lastOp'.op, lastOp'.arg))
       /\ \/ toParent'[p] = toParent[p]
          \/ toParent[p] # <<>> /\ toParent'[p] = Tail(toParent[p])
          \/ /\ toParent'[p] # <<>>
             /\ toParent'[p] = Append(toParent[p],
                                      toParent'[p][Len(toParent'[p])])
       /\ (IsDeliver(p) /\ Head(toParent[p]).type # System) =>
            LET calls == SelectSeq(OnMessageCalls(lastCalls'), LAMBDA c : c.id = p)
            IN /\ Len(calls) = onMessageHandlers[p]
               /\ \A i \in 1..Len(calls) :
                    /\ calls[i].arg.name = Head(toParent[p]).name
                    /\ calls[i].arg.data = Head(toParent[p]).data
       /\ ~IsDeliver(p) =>
            SelectSeq(OnMessageCalls(lastCalls'), LAMBDA c : c.id = p) = <<>>]_vars

\* the unit called progress(1), progress(2), resolve('done'): the handler was
\* handed the first envelope, the other two wait in that order
C22_Witness ==
  /\ Len(lastCalls) = 1 /\ lastCalls[1].call = "onMessage"
  /\ lastCalls[1].arg.name = "task_progress" /\ lastCalls[1].arg.data = "1"
  /\ toParent[1] = <<toJson(TaskProgress(1, "2")), toJson(TaskResolved(1, "done"))>>
  /\ unsettled[1] = 0 /\ toWorker[1] = <<>>

\* ------------------------------------------------------ envelope claims
\* the envelopes in the channels
Built ==
  UNION {SeqToSet(toParent[p]) \cup SeqToSet(toWorker[p]) : p \in Proxies}

\* the envelopes of the one constructor no thread ever calls
Unposted == {DisposeFailure(p, ErrorEvent) : p \in Proxies}

\* the error field holds an error: it is neither absent nor the empty object
\* toJson puts in its place
Populated(m) == m.error \notin {NoData, EmptyObject}

FailureOps == {"task_rejected", "setup_failure", "load_failure", "dispose_failure"}

\* C23 as claimed: an envelope is on the Error channel exactly when its
\* operation is TaskRejected, SetupFailure, LoadFailure or DisposeFailure and
\* its error field is populated.
C23_ErrorChannelIffFailure ==
  \A m \in Built : (m.type = Error) <=> (m.name \in FailureOps /\ Populated(m))

\* C23 as amended: an envelope is on the Error channel exactly when it is a
\* TaskRejected, whose payload is null and whose error is the one reject was
\* called with (none for reject()); SetupFailure, LoadFailure and
\* DisposeFailure are on the System channel and carry the error as payload
\* and as error; no other envelope has an error.
C23_ErrorChannelIffTaskRejected ==
  [][/\ \A m \in Built' \cup Unposted :
          /\ (m.type = Error) <=> (m.name = "task_rejected")
          /\ m.name \in FailureOps \ {"task_rejected"} =>
               m.type = System /\ Populated(m) /\ m.data = m.error
          /\ m.name = "task_rejected" => m.data = Null
          /\ m.name \notin FailureOps => ~Populated(m)
     /\ \A p \in Proxies :
          (IsEmission(p) /\ lastOp'.op = "reject") =>
            LET m == toParent'[p][Len(toParent'[p])]
            IN /\ m.name = "task_rejected"
               /\ Populated(m) <=> lastOp'.arg # NoData
               /\ Populated(m) => m.error = lastOp'.arg]_vars

\* a LoadFailure on its way to the proxy, on the System channel with its error
C23_Witness ==
  /\ toParent[1] # <<>>
  /\ Head(toParent[1]).name = "load_failure"
  /\ Head(toParent[1]).type = System
  /\ Head(toParent[1]).error = NotFound("missing")

\* the envelopes the unit of thread p builds before it encodes and posts them
UnitBuilt(p) ==
  {TaskProgress(p, d) : d \in Progress} \cup {TaskResolved(p, "done")}
    \cup {TaskRejected(p, e) : e \in Rejections}

\* C24: decoding an encoded envelope gives the envelope back: when the
\* encoding toJson(m) of an envelope m a unit built is delivered to a proxy,
\* the envelope create makes of it for the subscribed handlers is m, with the
\* same id, channel, operation, payload and error, whether m has an error or
\* none.
C24_RoundTrip ==
  [][\A p \in Proxies :
       IsDeliver(p) =>
         \A m \in UnitBuilt(p) :
           toJson(m) = Head(toParent[p]) =>
             \A i \in 1..Len(lastCalls') :
               (lastCalls'[i].call = "onMessage" /\ lastCalls'[i].id = p) =>
                 lastCalls'[i].arg = m]_vars

\* ---------------------------------------------------- executed-side claims
\* the step completes the handling of an envelope named name in thread p
IsHandled(p, name) ==
  /\ lastOp'.op = "messageHandler" /\ lastOp'.id = p /\ lastOp'.arg = name
  /\ handling[p] # <<>>

\* C25: a thread that handles a Load resolves its pointer in this order: no
\* pointer fails with the undefined-pointer error; a pointer with a file at
\* its path gives an instance of the file's default export, also when the
\* pointer is a bound label as well; a pointer with no file that is a bound
\* label gives an instance of the bound class; any other pointer fails with
\* the not-found error that names it.  The unit is loaded and LoadComplete
\* posted in the two successful cases, LoadFailure with the error posted and
\* the loaded unit left as it was in the other two.
C25_LoadResolutionOrder ==
  [][\A p \in Proxies :
       IsHandled(p, "load") =>
         LET ptr == handling[p][1].data
             res == lastOp'.ret
             r == toParent'[p][Len(toParent'[p])]
         IN /\ ptr = NoData => res = "undefined_pointer"
            /\ (ptr # NoData /\ ptr \in ExistingFiles) => res = "file"
            /\ (ptr # NoData /\ ptr \notin ExistingFiles /\ ptr \in Bindings) =>
                 res = "binding"
            /\ (ptr # NoData /\ ptr \notin ExistingFiles \cup Bindings) =>
                 res = NotFound(ptr)
            /\ toParent'[p] = Append(toParent[p], r)
            /\ IF res \in {"file", "binding"}
                 THEN r.name = "load_complete" /\ worker'[p] = ptr
                 ELSE /\ r.name = "load_failure" /\ r.error = res
                      /\ worker'[p] = worker[p]]_vars

\* "worker" is a file and a bound label: the file was loaded
C25_Witness ==
  /\ lastOp.op = "messageHandler" /\ lastOp.arg = "load" /\ lastOp.ret = "file"
  /\ worker[1] = "worker" /\ "worker" \in ExistingFiles \cap Bindings
  /\ toParent[1] # <<>> /\ toParent[1][Len(toParent[1])].name = "load_complete"

\* C26: a thread that handles a Setup, Load or Dispose envelope posts exactly
\* one envelope in response, on the System channel: the Complete or the
\* Failure of that operation, with the workerId of the envelope handled; it
\* posts nothing to any other proxy.
C26_OneResponsePerRequest ==
  [][\A p \in Proxies :
       \A k \in {"setup", "load", "dispose"} :
         IsHandled(p, k) =>
           LET m == handling[p][1]
               r == toParent'[p][Len(toParent'[p])]
           IN /\ m.name = k
              /\ toParent'[p] = Append(toParent[p], r)
              /\ r.type = System
              /\ r.name \in {OwnComplete(k), OwnFailure(k)}
              /\ r.workerId = m.workerId
              /\ \A q \in Proxies \ {p} : toParent'[q] = toParent[q]]_vars

\* a Load without a pointer was answered by one LoadFailure
C26_Witness ==
  /\ lastOp.op = "messageHandler" /\ lastOp.arg = "load"
  /\ toParent[1] = <<LoadFailure(1, "undefined_pointer")>>
  /\ handling[1] = <<>>

\* the step starts / completes a messageHandler call in thread p
IsHandlerStart(p) == lastOp'.op = "queue" /\ lastOp'.id = p
IsHandlerFinish(p) == lastOp'.op = "messageHandler" /\ lastOp'.id = p

\* C27: a thread has at most one envelope in handling; a handler call starts
\* only when none is in progress, with the oldest envelope that arrived, and
\* the call that completes is the one started, so that envelopes are handled,
\* and control requests answered, in arrival order: no request (a second
\* Load, a Dispose) is started while an earlier one is still being handled.
C27_OneAtATimeInOrder ==
  [][\A p \in Proxies :
       /\ Len(handling'[p]) <= 1
       /\ IsHandlerStart(p) =>
            /\ handling[p] = <<>> /\ toWorker[p] # <<>>
            /\ handling'[p] = <<Head(toWorker[p])>>
            /\ toWorker'[p] = Tail(toWorker[p])
            /\ UNCHANGED <<toParent, worker, workerLoader>>
       /\ IsHandlerFinish(p) =>
            /\ handling[p] # <<>>
            /\ lastOp'.arg = Head(handling[p]).name
            /\ handling'[p] = Tail(handling[p])
            /\ toWorker'[p] = toWorker[p]
       /\ handling'[p] # handling[p] => IsHandlerStart(p) \/ IsHandlerFinish(p)
       /\ (toWorker[p] # <<>> /\ toWorker'[p] = Tail(toWorker[p])) =>
            IsHandlerStart(p)]_vars

\* a Load is being handled while the Dispose that arrived behind it waits
C27_Witness ==
  /\ handling[1] = <<toJson(LoadMsg(1, "worker"))>>
  /\ toWorker[1] = <<toJson(DisposeMsg(1))>>
  /\ toParent[1] = <<>> /\ worker[1] = NoData

\* ---------------------------------------------------- handshake claims
\* the step is a pool call that starts a handshake of kind k on proxy p
StartsHandshake(p, k) ==
  /\ ops' = ops + 1 /\ lastOp'.ret = "pending" /\ lastOp'.id = p
  /\ lastOp'.op = (IF k = "load" THEN "getWorker" ELSE "releaseWorker")

\* C28: a handshake started on a proxy that has one pending leaves only its
\* own listener installed, the pending one's being discarded without its
\* promise being settled, and leaves no onMessage handler installed; the
\* response the thread then sends to the discarded handshake settles nothing
\* when it is delivered: it is dropped, and the pool call that awaited it
\* does not resume.
C28_PendingHandshakeDiscarded ==
  [][\A p \in Proxies :
       /\ \A k \in {"load", "dispose"} :
            (StartsHandshake(p, k) /\ listeners[p] # {}) =>
              /\ Cardinality(listeners'[p]) = 1
              /\ \A l \in listeners'[p] : l.kind = k
              /\ onMessageHandlers'[p] = 0
              /\ lastCalls' = <<>>
       /\ \A k \in {"setup", "load", "dispose"} :
            (/\ IsDeliver(p)
             /\ Head(toParent[p]).name \in {OwnComplete(k), OwnFailure(k)}
             /\ \A l \in listeners[p] : l.kind # k) =>
              /\ SettleCalls(lastCalls') = <<>>
              /\ lastOp'.op = "drop"
              /\ listeners'[p] = listeners[p]
              /\ UNCHANGED <<poolVars, held>>]_vars

\* releaseWorker was called while the proxy's load was pending: the
\* LoadComplete the thread sent was dropped, getWorker has not returned
C28_Witness ==
  /\ lastOp.op = "drop" /\ lastOp.id = 1 /\ lastOp.arg = "load_complete"
  /\ listeners[1] = {Listener("dispose", 1, NoData)}
  /\ ~held[1] /\ InBusy(1) = 1

\* proxy p has a handshake pending that its thread will not answer: the
\* thread has stopped or was terminated and no response to the handshake is
\* on its way
Unanswered(p) ==
  /\ listeners[p] # {}
  /\ thread[p] # "running" \/ terminated[p]
  /\ \A i \in 1..Len(toParent[p]) :
       \A l \in listeners[p] :
         toParent[p][i].name \notin {OwnComplete(l.kind), OwnFailure(l.kind)}

\* C29: a handshake whose thread will not answer stays pending for ever:
\* no step settles its promise or resumes the setup, getWorker or
\* releaseWorker call awaiting it, neither the thread's error or exit event
\* nor the passing of time, and unless a new handshake is started on the
\* proxy its listener stays installed and the handshake stays unanswered.
C29_UnansweredStaysPending ==
  [][\A p \in Proxies :
       Unanswered(p) =>
         /\ \A i \in 1..Len(lastCalls') :
              lastCalls'[i].call \in {"resolve", "reject"} => lastCalls'[i].id # p
         /\ ~(/\ lastOp'.id = p
              /\ lastOp'.op \in {"setup", "getWorker", "releaseWorker"}
              /\ lastOp'.ret \in {"void", "worker", "throw"})
         /\ ~(\E k \in {"load", "dispose"} : StartsHandshake(p, k)) =>
              listeners'[p] = listeners[p] /\ Unanswered(p)']_vars

\* the thread crashed and exited before it answered the Load: the load is
\* still pending and getWorker has not returned
C29_Witness ==
  /\ lastOp.op = "exit" /\ lastOp.id = 1 /\ thread[1] = "exited"
  /\ ~terminated[1]
  /\ listeners[1] = {Listener("load", 1, NoData)}
  /\ toParent[1] = <<>> /\ ~held[1] /\ InBusy(1) = 1

\* ------------------------------------------------------- query helpers
\* C30: called on the pool create returned, countAvailableWorkers() returns
\* the number of proxies in idle, countActiveWorkers() the number in busy,
\* hasAvailableWorker() whether idle is non-empty and hasActiveWorkers()
\* whether busy is non-empty, and the call changes nothing of the pool, its
\* proxies or their threads.
C30_HelpersReportSizes ==
  [][/\ lastOp'.op = "countAvailableWorkers" => lastOp'.ret = Num(IdleSize)
     /\ lastOp'.op = "countActiveWorkers" => lastOp'.ret = Num(BusySize)
     /\ lastOp'.op = "hasAvailableWorker" => lastOp'.ret = (IdleSize > 0)
     /\ lastOp'.op = "hasActiveWorkers" => lastOp'.ret = (BusySize > 0)
     /\ lastOp'.op \in {"countAvailableWorkers", "countActiveWorkers",
                        "hasAvailableWorker", "hasActiveWorkers"} =>
          /\ poolPc = "ready"
          /\ UNCHANGED <<poolVars, listeners, pointer, toWorker, toParent,
                         terminated, workerLoader, worker, handlerVars, held,
                         thread, unitVars>>]_vars

\* ------------------------------------------------------ ownership claims
\* the step is the return of getWorker to its caller with proxy p
IsGetWorkerReturn(p) ==
  lastOp'.op = "getWorker" /\ lastOp'.ret = "worker" /\ lastOp'.id = p

\* C31: a proxy is never shared between acquirers: getWorker takes a proxy
\* only when it is idle and not busy, and in the same step, before its load
\* is awaited, the proxy has left idle and is recorded in busy; a proxy that
\* getWorker returns is recorded in busy, once, and is not idle; so a proxy
\* taken by one getWorker call is taken by no other until a release of its
\* id completes.
C31_NeverShared ==
  [][\A p \in Proxies :
       /\ (IsGetWorkerCall /\ lastOp'.ret = "pending" /\ lastOp'.id = p) =>
            /\ InIdle(p) = 1 /\ InBusy(p) = 0
            /\ InIdle(p)' = 0 /\ InBusy(p)' = 1
            /\ listeners'[p] = {Listener("load", p, NoData)}
       /\ IsGetWorkerReturn(p) =>
            /\ InIdle(p) = 0 /\ InBusy(p) = 1
            /\ UNCHANGED <<availableWorkers, activeWorkersByPid>>
       \* a proxy leaves busy only when a release of its id completes
       /\ (InBusy(p) = 1 /\ InBusy(p)' = 0) =>
            IsReleaseResume /\ lastOp'.id = p]_vars

\* two getWorker calls overlap: the second was made while the load of the
\* first was pending, and each took a proxy of its own
C31_Witness ==
  /\ lastOp.op = "getWorker" /\ lastOp.ret = "pending" /\ lastOp.id = 2
  /\ listeners[1] = {Listener("load", 1, NoData)}
  /\ listeners[2] = {Listener("load", 2, NoData)}
  /\ InBusy(1) = 1 /\ InBusy(2) = 1 /\ IdleSize = 0

\* ------------------------------------------------------- liveness claims
\* a handshake of kind k is pending on proxy p
Pending(p, k) == \E l \in listeners[p] : l.kind = k

\* the last step settled the handshake of kind k of proxy p and resumed the
\* pool method that awaited it
Settled(p, k) ==
  /\ listeners[p] = {}
  /\ lastOp.id = p
  /\ lastOp.op = (IF k = "setup" THEN "setup"
                  ELSE IF k = "load" THEN "getWorker" ELSE "releaseWorker")
  /\ lastOp.ret \in {"void", "worker", "throw"}

\* C32: when every posted envelope is delivered in order, every thread keeps
\* taking the envelopes of its queue and no handshake is started on a proxy
\* that has one pending, every pending setup, load and dispose promise is
\* eventually settled, resolved or rejected.
C32_HandshakesSettle ==
  \A p \in Proxies, k \in {"setup", "load", "dispose"} :
    Pending(p, k) ~> Settled(p, k)

\* a dispose that was pending has resolved after a load had: releaseWorker
\* returned for a proxy getWorker had returned
C32_Witness ==
  /\ Settled(1, "dispose") /\ lastOp.ret = "void"
  /\ held[1] /\ InIdle(1) = 1 /\ toParent[1] = <<>> /\ toWorker[1] = <<>>

C34_FailedLoadStaysBusy ==
  [][\A p \in Proxies :
       /\ (/\ IsDeliver(p) /\ Head(toParent[p]).name = "load_failure"
           /\ Head(toParent[p]).type = System /\ Pending(p, "load")) =>
            /\ lastOp'.op = "getWorker" /\ lastOp'.ret = "throw"
            /\ lastOp'.id = p
            /\ lastCalls'[1].call = "reject"
            /\ InBusy(p)' = 1 /\ InIdle(p)' = 0
            /\ UNCHANGED <<availableWorkers, activeWorkersByPid>>
       /\ (poolPc = "ready" /\ InIdle(p) = 0 /\ InIdle(p)' = 1) =>
            /\ IsReleaseResume /\ lastOp'.id = p
            /\ InBusy(p) = 1 /\ InBusy(p)' = 0]_vars

\* getWorker has thrown for the second proxy, whose load failed: both
\* proxies are busy, the first one held by its caller, and none is idle
C34_Witness ==
  /\ lastOp.op = "getWorker" /\ lastOp.ret = "throw" /\ lastOp.id = 2
  /\ lastCalls[1].call = "reject"
  /\ held[1] /\ ~held[2]
  /\ InBusy(1) = 1 /\ InBusy(2) = 1 /\ IdleSize = 0

\* C35: a DisposeFailure delivered to a pending dispose makes releaseWorker
\* throw with the proxy still in busy, idle unchanged and the release
\* handler not called; and as long as a dispose stays pending, whatever else
\* happens, the proxy stays in busy, idle is unchanged and the release
\* handler is not called.
C35_FailedDisposeStaysBusy ==
  [][\A p \in Proxies :
       /\ (/\ IsDeliver(p) /\ Head(toParent[p]).name = "dispose_failure"
           /\ Head(toParent[p]).type = System /\ Pending(p, "dispose")) =>
            /\ lastOp'.op = "releaseWorker" /\ lastOp'.ret = "throw"
            /\ lastOp'.id = p /\ lastOp'.calls = <<>>
            /\ lastCalls'[1].call = "reject"
            /\ InBusy(p)' = 1
            /\ UNCHANGED <<availableWorkers, activeWorkersByPid>>
       /\ (Pending(p, "dispose") /\ Pending(p, "dispose")') =>
            /\ InBusy(p) = 1 /\ InBusy(p)' = 1
            /\ UNCHANGED availableWorkers
            /\ lastOp'.calls = <<>>]_vars

\* releaseWorker has thrown on a DisposeFailure: the proxy is still busy and
\* the registered release handler was not called
C35_Witness ==
  /\ lastOp.op = "releaseWorker" /\ lastOp.ret = "throw" /\ lastOp.id = 1
  /\ lastOp.calls = <<>> /\ workerReleaseHandler
  /\ InBusy(1) = 1 /\ InIdle(1) = 0 /\ listeners[1] = {}

PostsTaskResolved(p) ==
  /\ Len(toParent'[p]) = Len(toParent[p]) + 1
  /\ toParent'[p][Len(toParent'[p])].name = "task_resolved"

\* C38: the rejected flag of a unit is never cleared: the flag of the loaded
\* unit goes from set to unset only when a Load is handled successfully,
\* which installs a new unit; handling a RunTask leaves it as it is; the
\* flag of a unit that a Load replaced stays set; a resolve called on a unit
\* whose flag is set posts nothing, and a TaskResolved is posted only by a
\* resolve of a unit whose flag is not set.
C38_RejectedFlagNeverCleared ==
  [][\A p \in Proxies :
       /\ (isRejected[p] /\ ~isRejected'[p]) =>
            /\ lastOp'.op = "messageHandler" /\ lastOp'.arg = "load"
            /\ LoadSucceeds(lastOp'.ret)
       /\ (lastOp'.op = "messageHandler" /\ lastOp'.id = p
             /\ lastOp'.arg = "run_task") =>
            isRejected'[p] = isRejected[p]
       /\ (TRUE \in replaced[p]) => (TRUE \in replaced'[p])
       /\ (lastOp'.op = "resolve" /\ lastOp'.id = p /\ isRejected[p]) =>
            /\ toParent' = toParent
            /\ lastOp'.ret = NoData
       /\ PostsTaskResolved(p) =>
            \/ lastOp'.op = "resolve" /\ ~isRejected[p]
            \/ lastOp'.op = "replaced.resolve" /\ FALSE \in replaced[p]]_vars

\* a unit run twice and rejected once has called resolve: nothing was posted
\* and its flag is still set
C38_Witness ==
  /\ lastOp.op = "resolve" /\ lastOp.ret = NoData /\ lastOp.id = 1
  /\ isRejected[1] /\ unsettled[1] = 1 /\ worker[1] = "worker"
  /\ toWorker[1] = <<>> /\ toParent[1] = <<>>

\* the step delivers to proxy p, which has a handshake pending, an envelope
\* of the task channel
IsTaskDeliveryWhilePending(p) ==
  /\ IsDeliver(p)
  /\ Head(toParent[p]).name \in {"task_progress", "task_resolved",
                                 "task_rejected"}
  /\ listeners[p] # {}

\* C39 as claimed: a task envelope delivered to a proxy that has a handshake
\* pending is passed to no onMessage handler and does not settle the
\* handshake.
C39_DroppedWhilePending ==
  [][\A p \in Proxies :
       IsTaskDeliveryWhilePending(p) =>
         /\ OnMessageCalls(lastCalls') = <<>>
         /\ SettleCalls(lastCalls') = <<>>
         /\ listeners'[p] = listeners[p]]_vars

\* C39: starting a handshake on a proxy removes every onMessage handler
\* installed on it; a task envelope delivered while the handshake is pending
\* leaves the queue, settles nothing, leaves the handshake's listener
\* installed and the pool as it was, and is passed to the handlers that
\* onMessage installed since the handshake was started, once each, and to no
\* other: to none when onMessage was not called in between.
C39_DroppedUnlessSubscribedSince ==
  [][\A p \in Proxies :
       /\ \A k \in {"load", "dispose"} :
            StartsHandshake(p, k) => onMessageHandlers'[p] = 0
       /\ (listeners[p] # {} /\ onMessageHandlers'[p] > onMessageHandlers[p]) =>
            lastOp'.op = "onMessage"
       /\ IsTaskDeliveryWhilePending(p) =>
            /\ SettleCalls(lastCalls') = <<>>
            /\ lastOp'.op = "drop"
            /\ listeners'[p] = listeners[p]
            /\ Len(OnMessageCalls(lastCalls')) = onMessageHandlers[p]
            /\ Len(lastCalls') = onMessageHandlers[p]
            /\ toParent'[p] = Tail(toParent[p])
            /\ UNCHANGED <<poolVars, held, handlerVars>>]_vars

\* a TaskResolved reached the proxy while its dispose was pending: the
\* handler that had been registered before the release was not called
C39_Witness ==
  /\ lastOp.op = "drop" /\ lastOp.arg = "task_resolved" /\ lastOp.id = 1
  /\ lastCalls = <<>> /\ everRegistered[1].standing = 1
  /\ onMessageHandlers[1] = 0
  /\ listeners[1] = {Listener("dispose", 1, NoData)}

\* the step is a call of resolve, reject or progress that posts, made in
\* thread p by a unit the script no longer references
IsLateEmission(p) ==
  \/ /\ lastOp'.op \in {"resolve", "reject", "progress"} /\ lastOp'.id = p
     /\ worker[p] = NoData /\ lastOp'.ret # NoData
  \/ /\ lastOp'.op \in {"replaced.resolve", "replaced.reject",
                        "replaced.progress"}
     /\ lastOp'.id = p /\ lastOp'.ret # NoData

\* C40: Dispose does not cancel a run: a thread that handles Dispose while
\* the run of its unit is in progress posts DisposeComplete and the run goes
\* on, also past a later successful Load; what the unit emits after that is
\* posted on the thread's channel like any envelope, and its delivery, when no
\* handshake is pending, calls the onMessage handlers installed on the
\* proxy then, whoever registered them.
C40_DisposeDoesNotCancel ==
  [][\A p \in Proxies :
       /\ (/\ lastOp'.op = "messageHandler" /\ lastOp'.id = p
           /\ lastOp'.arg = "dispose" /\ running[p]) =>
            /\ toParent'[p] = Append(toParent[p], DisposeComplete(p))
            /\ worker'[p] = NoData
            /\ running'[p]
       /\ (/\ lastOp'.op = "messageHandler" /\ lastOp'.id = p
           /\ lastOp'.arg = "load" /\ LoadSucceeds(lastOp'.ret)
           /\ running[p]) =>
            isRejected[p] \in replaced'[p]
       /\ IsLateEmission(p) =>
            /\ Len(toParent'[p]) = Len(toParent[p]) + 1
            /\ toParent'[p][Len(toParent'[p])].name = lastOp'.ret
            /\ toParent'[p][Len(toParent'[p])].workerId = p
       /\ (/\ IsDeliver(p) /\ listeners[p] = {}
           /\ Head(toParent[p]).type # System) =>
            /\ Len(OnMessageCalls(lastCalls')) = onMessageHandlers[p]
            /\ \A i \in 1..Len(OnMessageCalls(lastCalls')) :
                 OnMessageCalls(lastCalls')[i].arg.data = Head(toParent[p]).data]_vars

\* the proxy was run, released while the run was in progress, acquired
\* again and subscribed to: the handler registered then was called with the
\* TaskResolved of the unit of the first task
C40_Witness ==
  /\ lastOp.op = "drop" /\ lastOp.arg = "task_resolved" /\ lastOp.id = 1
  /\ Len(lastCalls) = 1 /\ lastCalls[1].call = "onMessage"
  /\ lastCalls[1].arg.data = "old"
  /\ replaced[1] # {} /\ worker[1] = "worker"
  /\ listeners[1] = {} /\ InBusy(1) = 1

====
